---------------------------- MODULE Spec2Model ----------------------------
(***************************************************************************)
(* Model of the Saudi standards API (src/src/server.ts, lines 1-661):      *)
(* ingestion of heterogeneous JSON documents into the flat record list     *)
(* normalizedData, and the three query handlers that scan it.              *)
(*                                                                         *)
(* JavaScript strings are TLA+ strings; they are taken apart with SubSeq   *)
(* and Len and put together with \o, so every string function below is     *)
(* computed character by character as the source computes it.              *)
(***************************************************************************)
EXTENDS Integers, Sequences, FiniteSets, TLC

(***************************************************************************)
(* Bounds of the model.                                                    *)
(***************************************************************************)
\* number of files of the data directory read by one run of loadData
MaxFiles == 2

(***************************************************************************)
(* Characters and JavaScript string primitives.                            *)
(***************************************************************************)
MinOf(S) == CHOOSE x \in S : \A y \in S : x <= y

MaxOf(S) == CHOOSE x \in S : \A y \in S : x >= y

\* s.charAt(i - 1); "" outside the string
Ch(s, i) == IF i >= 1 /\ i <= Len(s) THEN SubSeq(s, i, i) ELSE ""

\* the regular-expression class \d
IsDigit(c) == c \in {"0", "1", "2", "3", "4", "5", "6", "7", "8", "9"}

\* the regular-expression class \s (and the characters String.trim removes)
IsSpace(c) == c \in {" ", "\n", "\t", "\r"}

LowerOf ==
  [A |-> "a", B |-> "b", C |-> "c", D |-> "d", E |-> "e", F |-> "f", G |-> "g",
   H |-> "h", I |-> "i", J |-> "j", K |-> "k", L |-> "l", M |-> "m", N |-> "n",
   O |-> "o", P |-> "p", Q |-> "q", R |-> "r", S |-> "s", T |-> "t", U |-> "u",
   V |-> "v", W |-> "w", X |-> "x", Y |-> "y", Z |-> "z"]

UpperOf ==
  [a |-> "A", b |-> "B", c |-> "C", d |-> "D", e |-> "E", f |-> "F", g |-> "G",
   h |-> "H", i |-> "I", j |-> "J", k |-> "K", l |-> "L", m |-> "M", n |-> "N",
   o |-> "O", p |-> "P", q |-> "Q", r |-> "R", s |-> "S", t |-> "T", u |-> "U",
   v |-> "V", w |-> "W", x |-> "X", y |-> "Y", z |-> "Z"]

LowerChar(c) == IF c \in DOMAIN LowerOf THEN LowerOf[c] ELSE c

UpperChar(c) == IF c \in DOMAIN UpperOf THEN UpperOf[c] ELSE c

\* concatenation of the strings parts[lo..hi]
RECURSIVE JoinRange(_, _, _)
JoinRange(parts, lo, hi) ==
  IF lo > hi THEN ""
  ELSE IF lo = hi THEN parts[lo]
  ELSE JoinRange(parts, lo, (lo + hi) \div 2)
       \o JoinRange(parts, (lo + hi) \div 2 + 1, hi)

Join(parts) == JoinRange(parts, 1, Len(parts))

\* String.prototype.toLowerCase
ToLowerCase(s) == Join([i \in 1..Len(s) |-> LowerChar(Ch(s, i))])

\* String.prototype.toUpperCase
ToUpperCase(s) == Join([i \in 1..Len(s) |-> UpperChar(Ch(s, i))])

\* s.substring(from) with a 0-based from
SubstringFrom(s, from) == IF from >= Len(s) THEN "" ELSE SubSeq(s, from + 1, Len(s))

\* s.substring(0, n)
Substring0(s, n) == IF n >= Len(s) THEN s ELSE IF n <= 0 THEN "" ELSE SubSeq(s, 1, n)

\* s.startsWith(q, i - 1): q occurs in s at the 1-based position i
OccursAt(s, q, i) ==
  /\ i >= 1
  /\ i + Len(q) - 1 <= Len(s)
  /\ (Len(q) = 0 \/ SubSeq(s, i, i + Len(q) - 1) = q)

\* String.prototype.includes
Includes(s, q) == \E i \in 1..(Len(s) - Len(q) + 1) : OccursAt(s, q, i)

\* String.prototype.endsWith
EndsWith(s, q) == Len(q) <= Len(s) /\ OccursAt(s, q, Len(s) - Len(q) + 1)

\* String.prototype.trim
Trim(s) ==
  LET Span(ns) == IF ns = {} THEN "" ELSE SubSeq(s, MinOf(ns), MaxOf(ns))
  IN  Span({i \in 1..Len(s) : ~IsSpace(Ch(s, i))})

\* s.replace(/\s+/g, ' '): every maximal whitespace run becomes one space
CollapseWs(s) ==
  Join([i \in 1..Len(s) |->
          IF ~IsSpace(Ch(s, i)) THEN Ch(s, i)
          ELSE IF i = 1 \/ ~IsSpace(Ch(s, i - 1)) THEN " "
          ELSE ""])

\* s.replace(/_/g, ' ')
ReplaceUnderscores(s) ==
  Join([i \in 1..Len(s) |-> IF Ch(s, i) = "_" THEN " " ELSE Ch(s, i)])

\* s.replace('.json', ''): the first occurrence only
RemoveFirst(s, q) ==
  LET Cut(i) == Substring0(s, i - 1) \o SubstringFrom(s, i - 1 + Len(q))
      First(at) == IF at = {} \/ Len(q) = 0 THEN s ELSE Cut(MinOf(at))
  IN  First({i \in 1..Len(s) : OccursAt(s, q, i)})

\* s.split(sep) for a one-character separator sep
RECURSIVE SplitFrom(_, _, _)
SplitFrom(s, sep, from) ==
  LET Cut(i) == <<IF i = from THEN "" ELSE SubSeq(s, from, i - 1)>>
                \o SplitFrom(s, sep, i + 1)
      First(at) == IF at = {} THEN <<SubstringFrom(s, from - 1)>>
                   ELSE Cut(MinOf(at))
  IN  First({i \in from..Len(s) : Ch(s, i) = sep})

SplitChar(s, sep) == SplitFrom(s, sep, 1)

\* s.split(/\s+/): the pieces between maximal whitespace runs, the empty
\* pieces before a leading run and after a trailing run included
RECURSIVE SplitWsFrom(_, _)
SplitWsFrom(s, from) ==
  LET Next(rest) == IF rest = {} THEN Len(s) + 1 ELSE MinOf(rest)
      Cut(i) == <<IF i = from THEN "" ELSE SubSeq(s, from, i - 1)>>
                \o SplitWsFrom(s, Next({j \in i..Len(s) : ~IsSpace(Ch(s, j))}))
      First(at) == IF at = {} THEN <<SubstringFrom(s, from - 1)>>
                   ELSE Cut(MinOf(at))
  IN  First({i \in from..Len(s) : IsSpace(Ch(s, i))})

SplitWs(s) == SplitWsFrom(s, 1)

\* s.split(/[.!?]+/)[0]: the text before the first sentence terminator
FirstSentence(s) ==
  LET First(at) == IF at = {} THEN s ELSE Substring0(s, MinOf(at) - 1)
  IN  First({i \in 1..Len(s) : Ch(s, i) \in {".", "!", "?"}})

(***************************************************************************)
(* Thresholds of parseContentIntoClauses.                                  *)
(***************************************************************************)
MinClauseLen == 20

TitleLen == 200

TextLen == 10000

ParagraphContentLen == 200

ParagraphLen == 100

ManyParagraphs == 3

FewParagraphLen == 50

WholeContentLen == 100

(***************************************************************************)
(* The three regular expressions of parseContentIntoClauses, matched the   *)
(* way a backtracking engine matches them.  Positions are 1-based and      *)
(* Len(s) + 1 is the end of the input.                                     *)
(***************************************************************************)
\* the position after the maximal run of digits that starts at i
DigitsEnd(s, i) == MinOf({j \in i..(Len(s) + 1) : ~IsDigit(Ch(s, j))})

\* the position after the maximal run of whitespace that starts at i
SpacesEnd(s, i) == MinOf({j \in i..(Len(s) + 1) : ~IsSpace(Ch(s, j))})

\* \d+\.\d+ matches at i
DottedPairAt(s, i) ==
  LET DotAt(a) == a > i /\ Ch(s, a) = "." /\ IsDigit(Ch(s, a + 1))
  IN  DotAt(DigitsEnd(s, i))

\* the end of \d+\.\d+ matched greedily at i
DottedPairEnd(s, i) == DigitsEnd(s, DigitsEnd(s, i) + 1)

\* the end of (?:\.\d+)* matched greedily at e
RECURSIVE DottedTailEnd(_, _)
DottedTailEnd(s, e) ==
  IF Ch(s, e) = "." /\ IsDigit(Ch(s, e + 1))
  THEN DottedTailEnd(s, DigitsEnd(s, e + 1))
  ELSE e

\* Article\s*\( matches at i; ci is the i flag of the expression
ArticleMarkAt(s, i, ci) ==
  /\ i + 6 <= Len(s)
  /\ Ch(s, i) \in (IF ci THEN {"A", "a"} ELSE {"A"})
  /\ IF ci THEN ToLowerCase(SubSeq(s, i, i + 6)) = "article"
           ELSE SubSeq(s, i, i + 6) = "Article"
  /\ Ch(s, SpacesEnd(s, i + 7)) = "("

\* the character class the lazy body group may not contain:
\* [^\d] for the numbered and section patterns, [^A] under the i flag
Excluded(pat, c) == IF pat = "article" THEN c \in {"A", "a"} ELSE IsDigit(c)

\* the lookahead that ends the body group
LookAhead(pat, s, q) ==
  \/ q = Len(s) + 1
  \/ ArticleMarkAt(s, q, pat = "article")
  \/ pat # "article" /\ DottedPairAt(s, q)

\* the end of the lazy body group started at t0, 0 when it cannot match:
\* at least one character, no excluded character, the shortest body after
\* which the lookahead holds
BodyEnd(pat, s, t0) ==
  LET StopAt(q) == IF LookAhead(pat, s, q) THEN q ELSE 0
  IN  IF t0 > Len(s) \/ Excluded(pat, Ch(s, t0)) THEN 0
      ELSE StopAt(MinOf({j \in (t0 + 1)..(Len(s) + 1) :
                           LookAhead(pat, s, j) \/ Excluded(pat, Ch(s, j))}))

\* hi, hi - 1, .., lo: the body starts a greedy \s* or \s+ leaves, in the
\* order backtracking tries them
Desc(hi, lo) == [k \in 1..(hi - lo + 1) |-> hi - k + 1]

NoMatch == [ok |-> FALSE, label |-> "", body |-> "", end |-> 0]

\* the first body start of starts that lets the rest of the pattern match
BodyMatch(pat, s, label, starts) ==
  LET Found(t0, q) == [ok |-> TRUE, label |-> label,
                       body |-> SubSeq(s, t0, q - 1), end |-> q]
      From(t0) == Found(t0, BodyEnd(pat, s, t0))
      First(good) == IF good = {} THEN NoMatch ELSE From(starts[MinOf(good)])
  IN  First({k \in 1..Len(starts) : BodyEnd(pat, s, starts[k]) # 0})

\* numberedPattern and sectionPattern at position p: the label, \s+, the body
DottedMatchAt(pat, s, p) ==
  LET Body(e, w) == IF w = e THEN NoMatch
                    ELSE BodyMatch(pat, s, SubSeq(s, p, e - 1), Desc(w, e + 1))
      After(e) == Body(e, SpacesEnd(s, e))
  IN  IF ~DottedPairAt(s, p) THEN NoMatch
      ELSE After(IF pat = "numbered"
                 THEN DottedTailEnd(s, DottedPairEnd(s, p))
                 ELSE DottedPairEnd(s, p))

\* articlePattern at position p: Article\s*\((\d+)\)(?:\s*[:])?\s*, the body
ArticleMatchAt(s, p) ==
  LET \* w: the end of the whitespace after the closing parenthesis at r - 1
      Body(d0, d1, r, w) ==
        BodyMatch("article", s, SubSeq(s, d0, d1 - 1),
                  (IF Ch(s, w) = ":" THEN Desc(SpacesEnd(s, w + 1), w + 1)
                   ELSE <<>>)
                  \o Desc(w, r))
      Number(d0, d1) == IF d1 = d0 \/ Ch(s, d1) # ")" THEN NoMatch
                        ELSE Body(d0, d1, d1 + 1, SpacesEnd(s, d1 + 1))
      Paren(d0) == Number(d0, DigitsEnd(s, d0))
  IN  IF ~ArticleMarkAt(s, p, TRUE) THEN NoMatch
      ELSE Paren(SpacesEnd(s, p + 7) + 1)

MatchAt(pat, s, p) ==
  IF pat = "article" THEN ArticleMatchAt(s, p) ELSE DottedMatchAt(pat, s, p)

\* Array.from(content.matchAll(pattern)): leftmost matches, each search
\* resumed where the previous match ended
RECURSIVE MatchAllFrom(_, _, _)
MatchAllFrom(pat, s, p) ==
  LET Rest(m) == <<m>> \o MatchAllFrom(pat, s, m.end)
      First(at) == IF at = {} THEN <<>> ELSE Rest(MatchAt(pat, s, MinOf(at)))
  IN  First({i \in p..Len(s) : MatchAt(pat, s, i).ok})

MatchAll(pat, s) == MatchAllFrom(pat, s, 1)

\* content.split(/\n\s*\n/): a separator is a newline, whitespace, and the
\* last newline of that whitespace run
ParagraphSepEnd(s, i) ==
  LET LastOf(nl) == IF Ch(s, i) = "\n" /\ nl # {} THEN MaxOf(nl) + 1 ELSE 0
  IN  LastOf({j \in (i + 1)..(SpacesEnd(s, i + 1) - 1) : Ch(s, j) = "\n"})

RECURSIVE SplitParagraphsFrom(_, _)
SplitParagraphsFrom(s, from) ==
  LET Cut(i) == <<IF i = from THEN "" ELSE SubSeq(s, from, i - 1)>>
                \o SplitParagraphsFrom(s, ParagraphSepEnd(s, i))
      First(at) == IF at = {} THEN <<SubstringFrom(s, from - 1)>>
                   ELSE Cut(MinOf(at))
  IN  First({i \in from..Len(s) : ParagraphSepEnd(s, i) # 0})

SplitParagraphs(s) == SplitParagraphsFrom(s, 1)

(***************************************************************************)
(* Parsed JSON values and the JavaScript operations applied to them.       *)
(* A value carries its kind; undefined is what reading a missing property  *)
(* yields.  Reading a property of null or undefined raises a TypeError.    *)
(* The attribute values of the documents are strings, as the interface     *)
(* NormalizedRecord declares them.                                         *)
(***************************************************************************)
Undefined == [k |-> "undefined"]

Null == [k |-> "null"]

JStr(s) == [k |-> "string", v |-> s]

JNum(n) == [k |-> "number", v |-> n]

JArr(a) == [k |-> "array", v |-> a]

JObj(o) == [k |-> "object", v |-> o]

\* reading a property of x raises a TypeError
Nullish(x) == x.k \in {"undefined", "null"}

\* the value of x in a condition
Truthy(x) ==
  CASE x.k = "string" -> x.v # ""
    [] x.k = "number" -> x.v # 0
    [] x.k \in {"undefined", "null"} -> FALSE
    [] OTHER -> TRUE

IsArray(x) == x.k = "array"

\* x[name] for a value that is not null or undefined
Get(x, name) ==
  IF x.k = "object" /\ name \in DOMAIN x.v THEN x.v[name] ELSE Undefined

\* vals[1] || vals[2] || .. || dflt, for string values
RECURSIVE FirstTruthyFrom(_, _, _)
FirstTruthyFrom(vals, i, dflt) ==
  IF i > Len(vals) THEN dflt
  ELSE IF Truthy(vals[i]) THEN vals[i].v
  ELSE FirstTruthyFrom(vals, i + 1, dflt)

FirstTruthy(vals, dflt) == FirstTruthyFrom(vals, 1, dflt)

\* o[names[1]] || o[names[2]] || .. || dflt
Attr(o, names, dflt) == FirstTruthy([i \in 1..Len(names) |-> Get(o, names[i])], dflt)

\* Array.isArray(o.tags) ? o.tags : (o.tag ? [o.tag] : [])
TagsOf(o) ==
  IF IsArray(Get(o, "tags"))
  THEN [i \in 1..Len(Get(o, "tags").v) |-> Get(o, "tags").v[i].v]
  ELSE IF Truthy(Get(o, "tag")) THEN <<Get(o, "tag").v>> ELSE <<>>

\* the concatenation of a sequence of sequences
RECURSIVE ConcatRange(_, _, _)
ConcatRange(seqs, lo, hi) ==
  IF lo > hi THEN <<>>
  ELSE IF lo = hi THEN seqs[lo]
  ELSE ConcatRange(seqs, lo, (lo + hi) \div 2)
       \o ConcatRange(seqs, (lo + hi) \div 2 + 1, hi)

ConcatAll(seqs) == ConcatRange(seqs, 1, Len(seqs))

\* the outcome of a function that returns a record list or raises
Returned(recs) == [threw |-> FALSE, recs |-> recs]

Thrown == [threw |-> TRUE, recs |-> <<>>]

\* the outcome of a forEach whose iterations push the record lists outs[i]:
\* an iteration that raises ends the enclosing function
ForEach(outs) ==
  IF \E i \in 1..Len(outs) : outs[i].threw THEN Thrown
  ELSE Returned(ConcatAll([i \in 1..Len(outs) |-> outs[i].recs]))

NormalizedRecord(standard, directiveCode, sectionCode, clauseId, title, text, facilityClass, domain, tags, reference) ==
  [standard |-> standard, directiveCode |-> directiveCode,
   sectionCode |-> sectionCode, clauseId |-> clauseId, title |-> title,
   text |-> text, facilityClass |-> facilityClass, domain |-> domain,
   tags |-> tags, reference |-> reference]

(***************************************************************************)
(* parseContentIntoClauses                                                 *)
(***************************************************************************)
\* firstSentence.substring(0, 200) || fallback
SentenceTitle(text, fallback) ==
  LET Or(title) == IF title # "" THEN title ELSE fallback
  IN  Or(Substring0(Trim(FirstSentence(text)), TitleLen))

CascadeMatchesArticleFirst(content) ==
  LET Choose(numberedMatches, articleMatches, sectionMatches) ==
        IF Len(articleMatches) > 1 THEN articleMatches
        ELSE IF Len(numberedMatches) > 1 THEN numberedMatches
        ELSE IF Len(sectionMatches) > 1 THEN sectionMatches
        ELSE <<>>
  IN  Choose(MatchAll("numbered", content), MatchAll("article", content),
             MatchAll("section", content))

CascadeMatchesSingle(content) ==
  LET Choose(numberedMatches, articleMatches, sectionMatches) ==
        IF Len(numberedMatches) > 0 THEN numberedMatches
        ELSE IF Len(articleMatches) > 0 THEN articleMatches
        ELSE IF Len(sectionMatches) > 0 THEN sectionMatches
        ELSE <<>>
  IN  Choose(MatchAll("numbered", content), MatchAll("article", content),
             MatchAll("section", content))

\* the matches of the first pattern of the cascade that matches more than once
CascadeMatches(content) ==
  LET Choose(numberedMatches, articleMatches, sectionMatches) ==
        IF Len(numberedMatches) > 1 THEN numberedMatches
        ELSE IF Len(articleMatches) > 1 THEN articleMatches
        ELSE IF Len(sectionMatches) > 1 THEN sectionMatches
        ELSE <<>>
  IN  Choose(MatchAll("numbered", content), MatchAll("article", content),
             MatchAll("section", content))

\* `${standard} ${directiveCode} ${sectionCode} ${clauseId}`.trim()
SegmentReference(standard, directiveCode, sectionCode, clauseId) ==
  Trim(standard \o " " \o directiveCode \o " " \o sectionCode \o " " \o clauseId)

\* the record of one match: pushed when the cleaned text is long enough
MatchRecord(clauseId, text, standard, directiveCode, sectionCode, domain) ==
  IF Len(text) > MinClauseLen
  THEN <<NormalizedRecord(standard, directiveCode, sectionCode, clauseId,
           SentenceTitle(text, "Clause " \o clauseId),
           Substring0(text, TextLen), "", domain, <<>>,
           SegmentReference(standard, directiveCode, sectionCode, clauseId))>>
  ELSE <<>>

\* matches.forEach((match, index) => ..): the clause id is the captured
\* label, or the 1-based index of the match when the label is empty
MatchRecords(matches, standard, directiveCode, sectionCode, domain) ==
  ConcatAll([i \in 1..Len(matches) |->
               MatchRecord(IF matches[i].label # "" THEN matches[i].label
                           ELSE ToString(i),
                           Trim(CollapseWs(Trim(matches[i].body))),
                           standard, directiveCode, sectionCode, domain)])

CascadeRecords(content, standard, directiveCode, sectionCode, domain) ==
  MatchRecords(CascadeMatches(content), standard, directiveCode, sectionCode,
               domain)

\* the record of the paragraph numbered i, pushed when it is longer than minLen
ParagraphRecord(i, trimmed, minLen, standard, directiveCode, sectionCode, domain) ==
  IF Len(trimmed) > minLen
  THEN <<NormalizedRecord(standard, directiveCode, sectionCode, ToString(i),
           SentenceTitle(trimmed, "Requirement " \o ToString(i)),
           Substring0(trimmed, TextLen), "", domain, <<>>,
           SegmentReference(standard, directiveCode, sectionCode,
                            ToString(i)))>>
  ELSE <<>>

\* p => p.trim().length > 100
MeaningfulParagraph(p) == Len(Trim(p)) > ParagraphLen

ParagraphsRecordsFewMinimum(paragraphs, standard, directiveCode, sectionCode, domain) ==
  ConcatAll([i \in 1..Len(paragraphs) |->
               ParagraphRecord(i, CollapseWs(Trim(paragraphs[i])),
                               FewParagraphLen,
                               standard, directiveCode, sectionCode, domain)])

\* paragraphs.forEach((para, index) => ..): the paragraphs are numbered
\* after the short ones are filtered out
ParagraphsRecords(paragraphs, standard, directiveCode, sectionCode, domain) ==
  ConcatAll([i \in 1..Len(paragraphs) |->
               ParagraphRecord(i, CollapseWs(Trim(paragraphs[i])),
                               IF Len(paragraphs) > ManyParagraphs
                               THEN ParagraphLen ELSE FewParagraphLen,
                               standard, directiveCode, sectionCode, domain)])

\* one record per paragraph of more than 100 characters
ParagraphRecords(content, standard, directiveCode, sectionCode, domain) ==
  ParagraphsRecords(SelectSeq(SplitParagraphs(content), MeaningfulParagraph),
                    standard, directiveCode, sectionCode, domain)

\* one record for the entire cleaned content
WholeRecord(content, standard, directiveCode, sectionCode, domain) ==
  <<NormalizedRecord(standard, directiveCode, sectionCode, "1",
      SentenceTitle(Substring0(CollapseWs(Trim(content)), TextLen),
                    IF sectionCode # "" THEN sectionCode ELSE "Requirement"),
      Substring0(CollapseWs(Trim(content)), TextLen), "", domain, <<>>,
      SegmentReference(standard, directiveCode, sectionCode, "1"))>>

\* if (results.length === 0 && content.length > 200): the paragraph fallback
ParagraphFallback(results, content, standard, directiveCode, sectionCode, domain) ==
  IF Len(results) = 0 /\ Len(content) > ParagraphContentLen
  THEN ParagraphRecords(content, standard, directiveCode, sectionCode, domain)
  ELSE results

WholeFallbackLongOnly(results, content, standard, directiveCode, sectionCode, domain) ==
  IF Len(results) = 0 /\ Len(content) > ParagraphContentLen
  THEN WholeRecord(content, standard, directiveCode, sectionCode, domain)
  ELSE results

\* if (results.length === 0 && content.length > 100): the whole-section fallback
WholeFallback(results, content, standard, directiveCode, sectionCode, domain) ==
  IF Len(results) = 0 /\ Len(content) > WholeContentLen
  THEN WholeRecord(content, standard, directiveCode, sectionCode, domain)
  ELSE results

parseContentIntoClauses(content, standard, directiveCode, sectionCode, domain) ==
  IF content = "" \/ Len(Trim(content)) = 0 THEN <<>>
  ELSE WholeFallback(
         ParagraphFallback(
           CascadeRecords(content, standard, directiveCode, sectionCode,
                          domain),
           content, standard, directiveCode, sectionCode, domain),
         content, standard, directiveCode, sectionCode, domain)

(***************************************************************************)
(* The structural walkers and normalizeRecord.                             *)
(***************************************************************************)
\* results.filter(r => r.title || r.text)
KeepNonEmpty(recs) ==
  LET NonEmpty(r) == r.title # "" \/ r.text # ""
  IN  SelectSeq(recs, NonEmpty)

\* the records pushed for the clause objects of one section; refPrefix is
\* the part of the synthesized reference before the clause number
ClauseRecords(section, standard, directiveCode, sectionCode, domain, refPrefix) ==
  LET clauses == Get(section, "clauses")
      rec(i) ==
        LET clause == clauses.v[i]
        IN  IF Nullish(clause) THEN Thrown
            ELSE Returned(<<NormalizedRecord(
                   standard, directiveCode, sectionCode,
                   Attr(clause, <<"clause_id", "id">>, ToString(i)),
                   FirstTruthy(<<Get(clause, "title"), Get(clause, "heading"),
                                 Get(section, "section_title")>>, ""),
                   Attr(clause, <<"text", "content", "requirement",
                                  "description">>, ""),
                   Attr(clause, <<"facility_class", "facilityClass",
                                  "class">>, ""),
                   domain, TagsOf(clause),
                   Attr(clause, <<"reference">>,
                        Trim(refPrefix \o " "
                             \o Attr(clause, <<"clause_id">>, ToString(i)))))>>)
  IN  IF Truthy(clauses) /\ IsArray(clauses) /\ Len(clauses.v) > 0
      THEN ForEach([i \in 1..Len(clauses.v) |-> rec(i)])
      ELSE Returned(<<>>)

\* the records parsed from the free text of one section; calling trim on a
\* truthy content that is not a string raises a TypeError
ContentRecords(section, standard, directiveCode, sectionCode, domain) ==
  IF ~Truthy(Get(section, "content")) THEN Returned(<<>>)
  ELSE IF Get(section, "content").k # "string" THEN Thrown
  ELSE IF Len(Trim(Get(section, "content").v)) > 0
  THEN Returned(parseContentIntoClauses(Get(section, "content").v, standard,
                                        directiveCode, sectionCode, domain))
  ELSE Returned(<<>>)

SectionRecordsExclusive(section, standard, directiveCode, sectionCode, domain) ==
  IF ClauseRecords(section, standard, directiveCode, sectionCode, domain, standard \o " " \o directiveCode \o " " \o sectionCode).recs # <<>>
  THEN ClauseRecords(section, standard, directiveCode, sectionCode, domain, standard \o " " \o directiveCode \o " " \o sectionCode)
  ELSE ContentRecords(section, standard, directiveCode, sectionCode, domain)

\* the body of the forEach over the sections of fromHcis
SectionRecords(section, standard, directiveCode, sectionCode, domain) ==
  ForEach(<<ClauseRecords(section, standard, directiveCode, sectionCode, domain,
                          standard \o " " \o directiveCode \o " "
                          \o sectionCode),
            ContentRecords(section, standard, directiveCode, sectionCode,
                           domain)>>)

HcisSection(section, standard, directiveCode, domain) ==
  IF Nullish(section) THEN Thrown
  ELSE SectionRecords(section, standard, directiveCode,
                      Attr(section, <<"section_code", "sectionCode">>, ""),
                      domain)

\* the body of the forEach over the directives of fromHcis
\* directive.structured_sections.forEach(section => ..)
HcisSections(sections, standard, directiveCode, domain) ==
  IF Truthy(sections) /\ IsArray(sections)
  THEN ForEach([i \in 1..Len(sections.v) |->
                  HcisSection(sections.v[i], standard, directiveCode, domain)])
  ELSE Returned(<<>>)

HcisDirective(directive, standard, domain) ==
  IF Nullish(directive) THEN Thrown
  ELSE HcisSections(Get(directive, "structured_sections"), standard,
                    Attr(directive, <<"directive_code", "directiveCode">>, ""),
                    domain)

\* fromHcis returning its results unfiltered
HcisFilterOmitted(recs) == recs

\* the final filter of fromHcis: results.filter(r => r.title || r.text)
HcisFilter(recs) == KeepNonEmpty(recs)

fromHcis(raw, standard, domain) ==
  LET directives == Get(raw, "directives")
  IN  IF ~Truthy(directives) \/ ~IsArray(directives) THEN Returned(<<>>)
      ELSE LET Filtered(walked) == IF walked.threw THEN Thrown
                                   ELSE Returned(HcisFilter(walked.recs))
           IN  Filtered(ForEach([i \in 1..Len(directives.v) |->
                                   HcisDirective(directives.v[i], standard,
                                                 domain)]))

\* the body of the forEach over the sections of fromDocumentStructure
DocumentSectionRecords(section, standard, sectionCode, domain) ==
  ForEach(<<ClauseRecords(section, standard, "", sectionCode, domain,
                          standard \o " " \o sectionCode),
            ContentRecords(section, standard, "", sectionCode, domain)>>)

DocumentSection(section, standard, domain) ==
  IF Nullish(section) THEN Thrown
  ELSE DocumentSectionRecords(section, standard,
         Attr(section, <<"section_code", "sectionCode">>, ""), domain)

fromDocumentStructure(raw, standard, domain) ==
  LET sections == Get(Get(raw, "document"), "structured_sections")
  IN  IF ~Truthy(Get(raw, "document")) \/ ~Truthy(sections)
         \/ ~IsArray(sections)
      THEN Returned(<<>>)
      ELSE LET Filtered(walked) == IF walked.threw THEN Thrown
                                   ELSE Returned(KeepNonEmpty(walked.recs))
           IN  Filtered(ForEach([i \in 1..Len(sections.v) |->
                                   DocumentSection(sections.v[i], standard,
                                                   domain)]))

\* the fallback of normalizeRecord: one record from a single free-form object
GenericRecord(record, standard, domain) ==
  NormalizedRecord(
    standard,
    Attr(record, <<"directiveCode", "directive_code", "directive", "chapter",
                   "section", "code">>, ""),
    Attr(record, <<"sectionCode", "section_code", "subsection", "article",
                   "clause">>, ""),
    Attr(record, <<"clauseId", "clause_id", "id", "clauseNumber", "number",
                   "articleNumber">>, ""),
    Attr(record, <<"title", "heading", "name", "description">>, ""),
    Attr(record, <<"text", "content", "requirement", "clause",
                   "description">>, ""),
    Attr(record, <<"facilityClass", "facility_class", "class", "occupancy",
                   "category">>, ""),
    Attr(record, <<"domain">>, domain),
    TagsOf(record),
    Attr(record, <<"reference", "ref">>,
         Trim(standard \o " "
              \o Attr(record, <<"directiveCode", "directive_code">>, "") \o " "
              \o Attr(record, <<"sectionCode", "section_code">>, "") \o " "
              \o Attr(record, <<"clauseId", "clause_id">>, ""))))

\* if (normalized.title || normalized.text) return [normalized]; return []
GenericKeep(normalized) ==
  IF normalized.title # "" \/ normalized.text # "" THEN <<normalized>> ELSE <<>>

RECURSIVE normalizeRecord(_, _, _, _)
normalizeRecord(record, standard, domain, filename) ==
  IF Nullish(record) THEN Thrown
  ELSE IF Truthy(Get(record, "directives")) /\ IsArray(Get(record, "directives"))
  THEN fromHcis(record, standard, domain)
  ELSE IF /\ Truthy(Get(record, "document"))
          /\ Truthy(Get(Get(record, "document"), "structured_sections"))
  THEN fromDocumentStructure(record, standard, domain)
  ELSE IF IsArray(record)
  THEN ForEach([i \in 1..Len(record.v) |->
                  normalizeRecord(record.v[i], standard, domain, filename)])
  ELSE Returned(GenericKeep(GenericRecord(record, standard, domain)))

(***************************************************************************)
(* The file-name heuristics of loadData.                                   *)
(***************************************************************************)
\* parts.slice(0, 2).join('_')
FirstTwoParts(parts) ==
  IF Len(parts) >= 2 THEN parts[1] \o "_" \o parts[2] ELSE parts[1]

extractStandardFromFilename(filename) ==
  LET name == RemoveFirst(filename, ".json")
      fallback == ToUpperCase(FirstTwoParts(SplitChar(name, "_")))
  IN  IF Includes(name, "HCIS") THEN "HCIS_SEC"
      ELSE IF Includes(name, "SBC_801") THEN "SBC_801"
      ELSE IF Includes(name, "SBC_901") THEN "SBC_901"
      ELSE IF Includes(name, "SASO_FIRE")
      THEN (IF Includes(name, "equipment") THEN "SASO_FIRE_TR"
            ELSE "SASO_FIRE_TECH_REG")
      ELSE IF Includes(name, "NCA")
      THEN (IF Includes(name, "ECC") THEN "NCA_ECC"
            ELSE IF Includes(name, "GECC") THEN "NCA_GECC"
            ELSE "NCA_CYBER")
      ELSE IF Includes(name, "NEOM")
      THEN (IF Includes(name, "Operational") THEN "NEOM_OPS_SEC"
            ELSE IF Includes(name, "Public Safety") THEN "NEOM_PUB_SAFETY"
            ELSE IF Includes(name, "SEC-SCH") THEN "NEOM_SEC_SCH"
            ELSE "NEOM")
      ELSE IF Includes(name, "SAMA")
      THEN (IF Includes(name, "BCM") THEN "SAMA_BCM" ELSE "SAMA_CYBER")
      ELSE IF Includes(name, "SDAIA") \/ Includes(name, "NDMO")
              \/ Includes(name, "PDPL")
      THEN "SDAIA_DATA"
      ELSE IF Includes(name, "Civil Defense")
      THEN (IF Includes(name, "code") THEN "CIVIL_DEFENSE_CODE"
            ELSE "CIVIL_DEFENSE_REG")
      ELSE IF Includes(name, "MAWANI") THEN "MAWANI_SEC"
      ELSE IF fallback # "" THEN fallback ELSE "UNKNOWN"

\* name.includes(a) || name.includes(b) || ..
IncludesAny(name, tokens) == \E t \in tokens : Includes(name, t)

extractDomain(filename, content) ==
  LET name == ToLowerCase(filename)
  IN  IF IncludesAny(name, {"fire", "civil_defense"}) THEN "fire"
      ELSE IF IncludesAny(name, {"cyber", "nca", "sama_cyber"}) THEN "cyber"
      ELSE IF IncludesAny(name, {"data", "pdpl", "ndmo"}) THEN "data_protection"
      ELSE IF IncludesAny(name, {"security", "hcis", "mawani", "neom"})
      THEN "security"
      ELSE IF IncludesAny(name, {"building", "sbc"}) THEN "building"
      ELSE IF IncludesAny(name, {"bcm", "business_continuity"})
      THEN "business_continuity"
      ELSE IF Includes(name, "maritime") THEN "maritime"
      ELSE IF Includes(name, "operational") THEN "operational"
      ELSE IF Includes(name, "public_safety") THEN "public_safety"
      ELSE IF ~Nullish(content) /\ Truthy(Get(content, "domain"))
      THEN ToLowerCase(Get(content, "domain").v)
      ELSE "general"

(***************************************************************************)
(* The query layer: normalizeRefString, fuzzyMatch and the handlers, each  *)
(* as the response it sends for a request body on the record list data.    *)
(***************************************************************************)
DefaultLimit == 50

\* normalizeRefString without its toLowerCase step
normalizeRefStringKeepCase(ref) ==
  IF ref = "" THEN ""
  ELSE Trim(CollapseWs(ReplaceUnderscores(ref)))

normalizeRefString(ref) ==
  IF ref = "" THEN ""
  ELSE Trim(CollapseWs(ReplaceUnderscores(ToLowerCase(ref))))

\* words.some(..) in the place of words.every(..)
SomeWord(words, lowerText) == \E i \in 1..Len(words) : Includes(lowerText, words[i])

\* words.every(word => lowerText.includes(word))
EveryWord(words, lowerText) == \A i \in 1..Len(words) : Includes(lowerText, words[i])

fuzzyMatch(text, query) ==
  IF query = "" THEN TRUE
  ELSE LET Match(lowerText, lowerQuery) ==
             \/ Includes(lowerText, lowerQuery)
             \/ EveryWord(SplitWs(lowerQuery), lowerText)
       IN  Match(ToLowerCase(text), ToLowerCase(query))

\* array.slice(0, end): a negative end counts from the end of the array
Slice0(arr, end) ==
  SubSeq(arr, 1,
         IF end < 0 THEN (IF Len(arr) + end < 0 THEN 0 ELSE Len(arr) + end)
         ELSE IF end > Len(arr) THEN Len(arr) ELSE end)

\* the responses: res.status(..).json(..)
Response(status, error, results, checklist, recordsLoaded) ==
  [status |-> status, error |-> error, results |-> results,
   checklist |-> checklist, recordsLoaded |-> recordsLoaded]

NoResponse == Response(0, "", <<>>, <<>>, 0)

SearchValidationError ==
  "At least one filter is required (standard, directiveCode, facilityClass, domain, or query)"

\* results.filter(r => r[field].toLowerCase().includes(value.toLowerCase())),
\* applied only when the filter value is truthy
FieldFilter(results, field, value) ==
  LET Match(r) == Includes(ToLowerCase(r[field]), ToLowerCase(value.v))
  IN  IF Truthy(value) THEN SelectSeq(results, Match) ELSE results

\* results.filter(r => fuzzyMatch(r.title, query) || fuzzyMatch(r.text, query))
QueryFilter(results, query) ==
  LET Match(r) == fuzzyMatch(r.title, query.v) \/ fuzzyMatch(r.text, query.v)
  IN  IF Truthy(query) THEN SelectSeq(results, Match) ELSE results

\* const { .., limit = 50 } = req.body
LimitOf(body) == IF body.limit.k = "undefined" THEN DefaultLimit ELSE body.limit.v

\* the validation condition without its last conjunct, !query
NoFilterButQuery(body) ==
  /\ ~Truthy(body.standard) /\ ~Truthy(body.directiveCode)
  /\ ~Truthy(body.facilityClass) /\ ~Truthy(body.domain)

\* !standard && !directiveCode && !facilityClass && !domain && !query
NoFilter(body) ==
  /\ ~Truthy(body.standard) /\ ~Truthy(body.directiveCode)
  /\ ~Truthy(body.facilityClass) /\ ~Truthy(body.domain)
  /\ ~Truthy(body.query)

searchRequirements(data, body) ==
  IF NoFilter(body)
  THEN Response(400, SearchValidationError, <<>>, <<>>, 0)
  ELSE Response(200, "",
         Slice0(QueryFilter(
                  FieldFilter(
                    FieldFilter(
                      FieldFilter(
                        FieldFilter(data, "standard", body.standard),
                        "directiveCode", body.directiveCode),
                      "facilityClass", body.facilityClass),
                    "domain", body.domain),
                  body.query),
                LimitOf(body)),
         <<>>, 0)

\* normalizedData.find(..): the first of the records at the positions hits
FindFirst(data, hits) == IF hits = {} THEN <<>> ELSE <<data[MinOf(hits)]>>

\* the positions r => normalizeRefString(r.reference) === refNorm
ExactHits(data, refNorm) ==
  {i \in 1..Len(data) : normalizeRefString(data[i].reference) = refNorm}

\* the positions r => normalizeRefString(r.reference).endsWith(refNorm)
SuffixHits(data, refNorm) ==
  {i \in 1..Len(data) : EndsWith(normalizeRefString(data[i].reference), refNorm)}

\* one lookup that takes the first record matching exactly or by suffix
ResolveReferenceOnePass(data, refNorm) ==
  FindFirst(data, ExactHits(data, refNorm) \cup SuffixHits(data, refNorm))

\* the two lookups, answering nothing to a query that normalizes to ""
ResolveReferenceNonBlank(data, refNorm) ==
  IF refNorm = "" THEN <<>>
  ELSE IF FindFirst(data, ExactHits(data, refNorm)) # <<>>
  THEN FindFirst(data, ExactHits(data, refNorm))
  ELSE FindFirst(data, SuffixHits(data, refNorm))

\* the two lookups of getReference: exact first, then endsWith
ResolveReference(data, refNorm) ==
  IF FindFirst(data, ExactHits(data, refNorm)) # <<>>
  THEN FindFirst(data, ExactHits(data, refNorm))
  ELSE FindFirst(data, SuffixHits(data, refNorm))

getReference(data, body) ==
  IF ~Truthy(body.reference) \/ body.reference.k # "string"
  THEN Response(400, "reference (string) is required", <<>>, <<>>, 0)
  ELSE LET Reply(result) ==
             IF result = <<>>
             THEN Response(404, "Reference not found", <<>>, <<>>, 0)
             ELSE Response(200, "", result, <<>>, 0)
       IN  Reply(ResolveReference(data, normalizeRefString(body.reference.v)))

\* the filter without its fallback: results = filtered, even when empty
HardFilter(results, field, values) ==
  LET HasField(r) == Len(r[field]) > 0
      Match(r) == \E i \in 1..Len(values) :
                    Includes(ToLowerCase(r[field]), ToLowerCase(values[i]))
  IN  SelectSeq(SelectSeq(results, HasField), Match)

\* the soft filter of generateChecklist: among the records of results with
\* a non-empty field, those that contain one of the lower-cased values; the
\* results are kept as they are when that leaves nothing
SoftFilter(results, field, values) ==
  LET HasField(r) == Len(r[field]) > 0
      Match(r) == \E i \in 1..Len(values) :
                    Includes(ToLowerCase(r[field]), ToLowerCase(values[i]))
      Soft(filtered) == IF Len(filtered) > 0 THEN filtered ELSE results
  IN  Soft(SelectSeq(SelectSeq(results, HasField), Match))

\* results.map(r => ({ .., requirement: r.text, mandatory: true, .. }))
ChecklistItem(r) ==
  [standard |-> r.standard, directiveCode |-> r.directiveCode,
   sectionCode |-> r.sectionCode, clauseId |-> r.clauseId,
   domain |-> r.domain, requirement |-> r.text,
   facilityClass |-> r.facilityClass, mandatory |-> TRUE,
   reference |-> r.reference]

\* normalizedData.filter(r => standards.some(s => r.standard includes s))
StandardsFilter(data, standards) ==
  LET Match(r) == \E i \in 1..Len(standards) :
                    Includes(ToLowerCase(r.standard), ToLowerCase(standards[i].v))
  IN  SelectSeq(data, Match)

\* the validation condition without standards.length === 0
InvalidStandardsButEmpty(body) ==
  \/ ~Truthy(body.standards)
  \/ ~IsArray(body.standards)

\* !standards || !Array.isArray(standards) || standards.length === 0
InvalidStandards(body) ==
  \/ ~Truthy(body.standards)
  \/ ~IsArray(body.standards)
  \/ Len(body.standards.v) = 0

\* the two soft filters in the other order: domains, then facilityClass
ChecklistRecordsDomainsFirst(data, body) ==
  LET ByClass(results) ==
        IF Truthy(body.facilityClass)
        THEN SoftFilter(results, "facilityClass", <<body.facilityClass.v>>)
        ELSE results
      ByDomains(results) ==
        IF IsArray(body.domains) /\ Len(body.domains.v) > 0
        THEN SoftFilter(results, "domain",
                        [i \in 1..Len(body.domains.v) |-> body.domains.v[i].v])
        ELSE results
  IN  ByClass(ByDomains(StandardsFilter(data, body.standards.v)))

\* the records of the checklist: the standards filter, then the soft filter
\* by facilityClass, then the soft filter by domains
ChecklistRecords(data, body) ==
  LET ByClass(results) ==
        IF Truthy(body.facilityClass)
        THEN SoftFilter(results, "facilityClass", <<body.facilityClass.v>>)
        ELSE results
      ByDomains(results) ==
        IF IsArray(body.domains) /\ Len(body.domains.v) > 0
        THEN SoftFilter(results, "domain",
                        [i \in 1..Len(body.domains.v) |-> body.domains.v[i].v])
        ELSE results
  IN  ByDomains(ByClass(StandardsFilter(data, body.standards.v)))

generateChecklist(data, body) ==
  IF InvalidStandards(body)
  THEN Response(400, "standards array is required and must not be empty",
                <<>>, <<>>, 0)
  ELSE LET Checklist(results) ==
             [i \in 1..Len(results) |-> ChecklistItem(results[i])]
       IN  Response(200, "", <<>>, Checklist(ChecklistRecords(data, body)), 0)

health(data) == Response(200, "", <<>>, <<>>, Len(data))

(***************************************************************************)
(* The inputs: the files the data directory may hold and the request       *)
(* bodies the clients may send.                                            *)
(***************************************************************************)
\* a DirectiveRooted document: clauses with and without attributes, a
\* clause with neither title nor text, and a numbered free text
HcisDocument ==
  JObj([directives |-> JArr(<<
    JObj([directive_code |-> JStr("SEC-05"),
          structured_sections |-> JArr(<<
            JObj([section_code |-> JStr("4.3"),
                  section_title |-> JStr("Perimeter"),
                  clauses |-> JArr(<<
                    JObj([clause_id |-> JStr("2"),
                          title |-> JStr("Fire Detection"),
                          text |-> JStr("Gate alarms"),
                          facility_class |-> JStr("Class A"),
                          reference |-> JStr("HCIS_SEC SEC-05 4.3.2")]),
                    JObj([id |-> JStr("7"),
                          text |-> JStr("Gates and fences fire rated")])>>)]),
            JObj([section_code |-> JStr("4.4"),
                  clauses |-> JArr(<<JObj([clause_id |-> JStr("1")])>>),
                  content |-> JStr(
                    "4.4.1 Fences must be tall enough. 4.4.2 Gates must be locked.")])
          >>)])>>)])

\* the DirectiveRooted document of the end-to-end scenario
FencesDocument ==
  JObj([directives |-> JArr(<<
    JObj([directive_code |-> JStr("SEC-05"),
          structured_sections |-> JArr(<<
            JObj([section_code |-> JStr("4.3"),
                  content |-> JStr(
                    "4.3.1 Fences must be 2m. 4.3.2 Gates must be locked.")])
          >>)])>>)])

\* a SectionRooted document with one clause object and one empty clause
SbcDocument ==
  JObj([document |-> JObj([structured_sections |-> JArr(<<
    JObj([section_code |-> JStr("9.1"),
          clauses |-> JArr(<<
            JObj([id |-> JStr("1"), heading |-> JStr("Exit doors"),
                  text |-> JStr("Fire doors"),
                  facilityClass |-> JStr("Class B")]),
            JObj([tag |-> JStr("draft")])>>)])>>)])])

\* an array of Generic documents, one of them with neither title nor text
MiscDocument ==
  JArr(<<JObj([name |-> JStr("Gate"), content |-> JStr("fire drill"),
               ref |-> JStr("SEC-05 4.3.2")]),
         JObj([id |-> JStr("3")])>>)

\* a DirectiveRooted document whose one clause supplies its reference
Sec01Document ==
  JObj([directives |-> JArr(<<
    JObj([directive_code |-> JStr("SEC-01"),
          structured_sections |-> JArr(<<
            JObj([section_code |-> JStr("4.4"),
                  clauses |-> JArr(<<
                    JObj([clause_id |-> JStr("1"),
                          title |-> JStr("Access Control"),
                          text |-> JStr("Badges are checked"),
                          reference |-> JStr("HCIS_SEC SEC-01 4.4.1")])>>)])
          >>)])>>)])

\* texts made of article blocks, by the file that holds them: each block is
\* the article number, what stands between the closing parenthesis and the
\* body (an optional colon), and the body
ArticleBlocks ==
  "articles_plain.json" :>
       << <<"1", ":", " Every door is locked when not in use. ">>,
          <<"2", "", " The roof is kept free of litter by the crew.">> >>
  @@ "articles_letters.json" :>
       << <<"1", ":", " All gates are locked at night by the guard. ">>,
          <<"2", "", " A patrol walks the whole area every hour. ">>,
          <<"3", " :", " Alarms are tested on the first day of each month.">> >>
  @@ "articles_mixed.json" :>
       << <<"1", "", " Every door is locked when not in use. ">>,
          <<"2", ":", " The guard checks every badge on entry. ">>,
          <<"3", "", " Visitors sign the log book in full.">> >>

\* the text of a sequence of article blocks
ArticleText(blocks) ==
  Join([i \in 1..Len(blocks) |->
          "Article (" \o blocks[i][1] \o ")" \o blocks[i][2] \o blocks[i][3]])

\* free texts of sections, by the file that holds them: texts the cascade
\* segments, texts with a single numbered label, and texts the paragraph
\* fallback splits
SegmenterTexts ==
  "cascade_priority.json" :>
       "1.1 The outer fence is kept in good order. Article (1) Every door is locked when not in use. Article (2) The roof is kept free of litter by the crew. Article (3) Visitors sign the log book 2.2 The inner door is kept shut by the crew on duty"
  @@ "cascade_short_bodies.json" :>
       "1.1 Fences. Article (1) Every door is locked when not in use. Article (2) The roof is kept free of litter by the crew. Article (3) Visitors sign the log book in full 2.2 Doors"
  @@ "cascade_one_short.json" :>
       "1.1 Fences. Article (1) Every door is locked when not in use. Article (2) The roof is kept free of litter by the crew. Article (3) Visitors sign the log book 2.2 The inner door is kept shut by the crew on duty"
  @@ "cascade_numbered.json" :>
       "4.4.1 Every visitor signs the register on entry. 4.4.2 Escort needed. 4.4.3 Badges are worn above the waist at all times."
  @@ "single_fences.json" :>
       "4.3.1 Fences must be 2m. 4.3.2 Gates must be locked."
  @@ "single_whole.json" :>
       "General duties of the guard force on site. 7.1 The guard on duty keeps the gate log and reports every entry to the control room."
  @@ "single_article.json" :>
       "7.1 The guard on duty keeps the gate log and reports every entry to the control room before the end of the shift. Article (1) lock the doors once the shift is over"
  @@ "single_paragraphs.json" :>
       "The perimeter fence is inspected weekly by the duty officer, and every defect found is logged and repaired.\n\n3.2 Spare keys stay                                                            in the locked cabinet with the log book\n \nDoors                                                                                                    stay shut\n\nShort note."
  @@ "paragraphs_many.json" :>
       "The perimeter fence is inspected weekly by the duty officer, and every defect found is logged and repaired.\n\nVisitors are escorted at all times within the restricted zone, and their badges are returned upon leaving.\n\nGates are closed at dusk and the guard on duty walks                              the whole fence line before the night shift\n\nFire extinguishers are mounted near each exit door, checked monthly, and replaced when the seal is broken.\n\nBackup power must start within ten seconds of a mains failure and must carry the full load of the site."
  @@ "paragraphs_few.json" :>
       "Visitors are escorted at all times within the restricted zone, and their badges are returned upon leaving.\n\nSpare keys stay                                                            in the locked cabinet with the log book\n\nDoors                                                                                                    stay shut"
  @@ "paragraphs_thin.json" :>
       "Doors                                                                                                    stay shut\n\nDoors                                                                                                    stay shut"
  @@ "blank.json" :>
       "                                        \n\n                                        \t                                        "
  @@ "empty.json" :> ""
  @@ [file \in DOMAIN ArticleBlocks |-> ArticleText(ArticleBlocks[file])]

\* a DirectiveRooted document whose one section holds only free text
TextDocument(content) ==
  JObj([directives |-> JArr(<<
    JObj([directive_code |-> JStr("SEC-09"),
          structured_sections |-> JArr(<<
            JObj([section_code |-> JStr("2.1"),
                  content |-> JStr(content)])>>)])>>)])

\* s repeated until the result has n characters
RECURSIVE Filler(_, _)
Filler(s, n) ==
  IF n <= Len(s) THEN SubSeq(s, 1, n)
  ELSE Filler(s, n \div 2) \o Filler(s, n - n \div 2)

\* a generic object that yields one record
GateObject == JObj([title |-> JStr("Gate"), text |-> JStr("Gates are locked")])

\* an array of Generic documents, the second with a supplied reference made
\* of one underscore
BlankReferenceDocument ==
  JArr(<<GateObject,
         JObj([title |-> JStr("Fence"), text |-> JStr("Fences are lit"),
               reference |-> JStr("_")])>>)

\* a section with one clause object
ClauseSection(sectionCode, clause) ==
  JObj([section_code |-> JStr(sectionCode), clauses |-> JArr(<<clause>>)])

\* two sections that carry both clause objects and a free text; the second
\* clause of the first section repeats a clause of its free text
MixedSections ==
  <<JObj([section_code |-> JStr("3.1"),
          clauses |-> JArr(<<
            JObj([clause_id |-> JStr("a"), title |-> JStr("Locks"),
                  text |-> JStr("Locks are checked")]),
            JObj([clause_id |-> JStr("4.4.1"),
                  text |-> JStr("Every visitor signs the register on entry.")])>>),
          content |-> JStr(SegmenterTexts["cascade_numbered.json"])]),
    JObj([section_code |-> JStr("3.2"),
          clauses |-> JArr(<<GateObject>>),
          content |-> JStr(SegmenterTexts["articles_plain.json"])])>>

\* parsed documents of unusual shape, by file: null and scalar values,
\* lists with null or scalar elements, directive / section / clause lists
\* with non-objects, a free text that is not a string, clause and
\* generic texts longer than the text limit, and records without directive or section code
ArchiveDocuments ==
  "null_value.json" :> Null
  @@ "number_value.json" :> JNum(7)
  @@ "string_value.json" :> JStr("Gates are locked")
  @@ "scalar_list.json" :> JArr(<<JStr("Gate"), JNum(1), GateObject>>)
  @@ "null_element.json" :> JArr(<<GateObject, Null>>)
  @@ "null_directive.json" :>
       JObj([directives |-> JArr(<<
         JObj([directive_code |-> JStr("SEC-02"),
               structured_sections |-> JArr(<<
                 ClauseSection("1.1", GateObject)>>)]),
         Null>>)])
  @@ "null_section.json" :>
       JObj([document |-> JObj([structured_sections |-> JArr(<<
         ClauseSection("1.1", GateObject), Null>>)])])
  @@ "null_clause.json" :>
       JObj([directives |-> JArr(<<
         JObj([structured_sections |-> JArr(<<
           JObj([clauses |-> JArr(<<GateObject, Null>>)])>>)])>>)])
  @@ "scalar_clause.json" :>
       JObj([directives |-> JArr(<<
         JNum(3),
         JObj([structured_sections |-> JArr(<<
           JStr("1.1"),
           JObj([section_title |-> JStr("Gates"),
                 clauses |-> JArr(<<JNum(5), GateObject>>)])>>)])>>)])
  @@ "numeric_content.json" :>
       JObj([directives |-> JArr(<<
         JObj([structured_sections |-> JArr(<<
           JObj([clauses |-> JArr(<<GateObject>>),
                 content |-> JNum(5)])>>)])>>)])
  @@ "long_clause.json" :>
       JObj([directives |-> JArr(<<
         JObj([directive_code |-> JStr("SEC-03"),
               structured_sections |-> JArr(<<
                 ClauseSection("1.1",
                   JObj([title |-> JStr("Annex"),
                         text |-> JStr(Filler("Gates are locked. ",
                                              TextLen + 1))]))>>)])>>)])
  @@ "long_generic.json" :>
       JObj([title |-> JStr("Annex"),
             text |-> JStr(Filler("Gates are locked. ", TextLen + 1))])
  @@ "bare_generic.json" :>
       JObj([title |-> JStr("Gate"), clause_id |-> JStr("9")])
  @@ "bare_directive.json" :>
       JObj([directives |-> JArr(<<
         JObj([structured_sections |-> JArr(<<
           ClauseSection("4.4", GateObject)>>)])>>)])
  @@ "mixed_directive.json" :>
       JObj([directives |-> JArr(<<
         JObj([directive_code |-> JStr("SEC-04"),
               structured_sections |-> JArr(MixedSections)])>>)])
  @@ "mixed_section.json" :>
       JObj([document |-> JObj([structured_sections |-> JArr(MixedSections)])])
  @@ "nested_generic.json" :>
       JObj([title |-> JStr("Site rules"), text |-> JStr("Rules of the site"),
             items |-> JArr(<<
               GateObject,
               JObj([title |-> JStr("Door"),
                     requirements |-> JArr(<<
                       JObj([title |-> JStr("Lock"),
                             text |-> JStr("Locks are checked")])>>)])>>)])
  @@ "loose_document.json" :>
       JObj([title |-> JStr("Manual"), text |-> JStr("Gates are locked"),
             document |-> JObj([structured_sections |-> JStr("see annex")])])
  @@ "untitled_clause.json" :>
       JObj([directives |-> JArr(<<
         JObj([directive_code |-> JStr("SEC-07"),
               structured_sections |-> JArr(<<
                 ClauseSection("6.1",
                   JObj([clause_id |-> JStr("1"),
                         text |-> JStr("Gates are locked. Doors too.")]))>>)])>>)])
  @@ "untitled_generic.json" :>
       JObj([text |-> JStr("Gates are locked. Doors too.")])
  @@ "id_clause.json" :>
       JObj([directives |-> JArr(<<
         JObj([directive_code |-> JStr("SEC-06"),
               structured_sections |-> JArr(<<
                 ClauseSection("5.2",
                   JObj([id |-> JStr("A7"), title |-> JStr("Gate"),
                         text |-> JStr("Gates are locked")]))>>)])>>)])
  @@ "id_section_clause.json" :>
       JObj([document |-> JObj([structured_sections |-> JArr(<<
         ClauseSection("5.2",
           JObj([id |-> JStr("A7"), title |-> JStr("Gate"),
                 text |-> JStr("Gates are locked")]))>>)])])
  @@ "keyed_clause.json" :>
       JObj([directives |-> JArr(<<
         JObj([directive_code |-> JStr("SEC-06"),
               structured_sections |-> JArr(<<
                 ClauseSection("5.2",
                   JObj([clause_id |-> JStr("A7"), title |-> JStr("Gate"),
                         text |-> JStr("Gates are locked")]))>>)])>>)])
  @@ "NCA_GECC_controls.json" :> GateObject
  @@ "NCA_ECC_controls.json" :> GateObject
  @@ "NCA_guide.json" :> GateObject
  @@ "port_rules_2024.json" :> GateObject
  @@ "section_text.json" :>
       JObj([document |-> JObj([structured_sections |-> JArr(<<
         JObj([section_code |-> JStr("9.1"),
               content |-> JStr(SegmenterTexts["cascade_numbered.json"])])
       >>)])])

FileNames ==
  {"HCIS_SEC_directives.json", "HCIS_fences.json", "SBC_801.json",
   "misc_rules.json", "NCA_ECC.json", "PDPL_law.json", "notes.txt"}

\* the files whose content JSON.parse rejects
Unparsable == {"NCA_ECC.json"}

\* JSON.parse(fileContent) of the parsable files
ParsedFile(file) ==
  CASE file = "HCIS_SEC_directives.json" -> HcisDocument
    [] file = "HCIS_fences.json" -> FencesDocument
    [] file = "SBC_801.json" -> SbcDocument
    [] file = "misc_rules.json" -> MiscDocument
    [] file = "HCIS_SEC_01.json" -> Sec01Document
    [] file = "blank_reference.json" -> BlankReferenceDocument
    [] file \in DOMAIN SegmenterTexts -> TextDocument(SegmenterTexts[file])
    [] file \in DOMAIN ArchiveDocuments -> ArchiveDocuments[file]
    [] OTHER -> Null

\* the listings readdir may return: up to MaxFiles distinct files, in any order
Directories ==
  UNION {{d \in [1..n -> FileNames] : \A i, j \in 1..n : i # j => d[i] # d[j]} :
           n \in 0..MaxFiles}

OptionalString(values) == {Undefined} \cup {JStr(v) : v \in values}

\* every combination of the filters without a limit, and every limit with
\* the standard and the query filters
SearchBodies ==
  {body \in [standard : OptionalString({"", "hcis"}),
             directiveCode : OptionalString({"Sec-05"}),
             facilityClass : OptionalString({"class a"}),
             domain : OptionalString({"SECUR"}),
             query : OptionalString({"fire gate", "Fire", " fences  GATES ",
                                     "  "}),
             limit : {Undefined, JNum(-1), JNum(0), JNum(1), JNum(2)}] :
     \/ body.limit = Undefined
     \/ /\ body.directiveCode = Undefined
        /\ body.facilityClass = Undefined
        /\ body.domain = Undefined}

ReferenceBodies ==
  [reference : OptionalString({"", "hcis sec sec-05 4.3.2",
                               " HCIS_SEC  SEC-05__4.3.2 ", "sec-05 4.3.2",
                               "SEC-05\t4.3.2", "unknown", "  ", "_ ",
                               "HCIS SEC-01 4.4.1"})
               \cup {JNum(5)}]

ChecklistBodies ==
  [standards : {Undefined, JStr("hcis"), JArr(<<>>), JArr(<<JStr("hcis")>>),
                JArr(<<JStr("SBC"), JStr("hcis")>>), JArr(<<JStr("neom")>>)},
   facilityClass : OptionalString({"", "class a", "class b", "class z"}),
   domains : {Undefined, JArr(<<>>), JArr(<<JStr("Security")>>),
              JArr(<<JStr("zzz"), JStr("build")>>)}]

NoRequest == [op |-> "none", body |-> Undefined]

(***************************************************************************)
(* The process: startServer awaits loadData, then listens.                 *)
(***************************************************************************)
VARIABLES
  pc,              \* "start", "loading", "listening" or "exited"
  dir,             \* the listing of the data directory
  jsonFiles,       \* files.filter(f => f.endsWith('.json'))
  loaded,          \* the number of files the loop of loadData has handled
  normalizedData,  \* the record list
  request,         \* the request being served, NoRequest between requests
  response         \* the response sent to it

vars == <<pc, dir, jsonFiles, loaded, normalizedData, request, response>>

Init ==
  /\ pc = "start"
  /\ dir \in Directories
  /\ jsonFiles = <<>>
  /\ loaded = 0
  /\ normalizedData = <<>>
  /\ request = NoRequest
  /\ response = NoResponse

\* loadData up to the loop: readdir and the .json filter
ReadDir ==
  /\ pc = "start"
  /\ pc' = "loading"
  /\ jsonFiles' = LET IsJson(f) == EndsWith(f, ".json") IN SelectSeq(dir, IsJson)
  /\ UNCHANGED <<dir, loaded, normalizedData, request, response>>

\* readdir raises: loadData rethrows and startServer exits the process
ReadDirFails ==
  /\ pc = "start"
  /\ pc' = "exited"
  /\ UNCHANGED <<dir, jsonFiles, loaded, normalizedData, request, response>>

\* the records one iteration of the loop of loadData pushes: none when
\* JSON.parse or normalizeRecord raises, which the inner catch logs
FileRecords(file) ==
  LET Pushed(normalized) == IF normalized.threw THEN <<>> ELSE normalized.recs
  IN  IF file \in Unparsable THEN <<>>
      ELSE Pushed(normalizeRecord(ParsedFile(file),
                                  extractStandardFromFilename(file),
                                  extractDomain(file, ParsedFile(file)), file))

LoadFileAborting ==
  /\ pc = "loading"
  /\ loaded < Len(jsonFiles)
  /\ normalizedData' = normalizedData \o FileRecords(jsonFiles[loaded + 1])
  /\ loaded' = IF \/ jsonFiles[loaded + 1] \in Unparsable
                  \/ Nullish(ParsedFile(jsonFiles[loaded + 1]))
               THEN Len(jsonFiles) ELSE loaded + 1
  /\ UNCHANGED <<pc, dir, jsonFiles, request, response>>

\* one iteration of the loop of loadData
LoadFile ==
  /\ pc = "loading"
  /\ loaded < Len(jsonFiles)
  /\ normalizedData' = normalizedData \o FileRecords(jsonFiles[loaded + 1])
  /\ loaded' = loaded + 1
  /\ UNCHANGED <<pc, dir, jsonFiles, request, response>>

ListenEarly ==
  /\ pc = "loading"
  /\ pc' = "listening"
  /\ UNCHANGED <<dir, jsonFiles, loaded, normalizedData, request, response>>

\* loadData returns and startServer calls app.listen
Listen ==
  /\ pc = "loading"
  /\ loaded = Len(jsonFiles)
  /\ pc' = "listening"
  /\ UNCHANGED <<dir, jsonFiles, loaded, normalizedData, request, response>>

SearchRequirementsInPlace ==
  /\ pc = "listening"
  /\ request = NoRequest
  /\ \E body \in SearchBodies :
       /\ request' = [op |-> "searchRequirements", body |-> body]
       /\ response' = searchRequirements(normalizedData, body)
       /\ normalizedData' = IF searchRequirements(normalizedData, body).status = 200
                            THEN searchRequirements(normalizedData, body).results
                            ELSE normalizedData
  /\ UNCHANGED <<pc, dir, jsonFiles, loaded>>

SearchRequirements ==
  /\ pc = "listening"
  /\ request = NoRequest
  /\ \E body \in SearchBodies :
       /\ request' = [op |-> "searchRequirements", body |-> body]
       /\ response' = searchRequirements(normalizedData, body)
  /\ UNCHANGED <<pc, dir, jsonFiles, loaded, normalizedData>>

GetReference ==
  /\ pc = "listening"
  /\ request = NoRequest
  /\ \E body \in ReferenceBodies :
       /\ request' = [op |-> "getReference", body |-> body]
       /\ response' = getReference(normalizedData, body)
  /\ UNCHANGED <<pc, dir, jsonFiles, loaded, normalizedData>>

GenerateChecklist ==
  /\ pc = "listening"
  /\ request = NoRequest
  /\ \E body \in ChecklistBodies :
       /\ request' = [op |-> "generateChecklist", body |-> body]
       /\ response' = generateChecklist(normalizedData, body)
  /\ UNCHANGED <<pc, dir, jsonFiles, loaded, normalizedData>>

Health ==
  /\ pc = "listening"
  /\ request = NoRequest
  /\ request' = [op |-> "health", body |-> Undefined]
  /\ response' = health(normalizedData)
  /\ UNCHANGED <<pc, dir, jsonFiles, loaded, normalizedData>>

\* the exchange ends: the handlers are synchronous, so the server takes the
\* next request only after the response to the previous one is sent
Close ==
  /\ pc = "listening"
  /\ request # NoRequest
  /\ request' = NoRequest
  /\ response' = NoResponse
  /\ UNCHANGED <<pc, dir, jsonFiles, loaded, normalizedData>>

Next ==
  \/ ReadDir
  \/ ReadDirFails
  \/ LoadFile
  \/ Listen
  \/ SearchRequirements
  \/ GetReference
  \/ GenerateChecklist
  \/ Health
  \/ Close

Spec == Init /\ [][Next]_vars

\* the listings of a data directory that holds the SEC-01 directive
LookupListings ==
  {<<"HCIS_SEC_01.json">>, <<"HCIS_SEC_01.json", "misc_rules.json">>,
   <<"misc_rules.json", "HCIS_SEC_01.json">>, <<"notes.txt", "HCIS_SEC_01.json">>,
   <<"HCIS_SEC_01.json", "blank_reference.json">>, <<"blank_reference.json">>}

LookupInit ==
  /\ pc = "start"
  /\ dir \in LookupListings
  /\ jsonFiles = <<>>
  /\ loaded = 0
  /\ normalizedData = <<>>
  /\ request = NoRequest
  /\ response = NoResponse

\* the same process on the data directory of LookupListings
LookupSpec == LookupInit /\ [][Next]_vars

\* the files of an archive of odd and free-text documents
ArchiveFiles ==
  DOMAIN SegmenterTexts \cup DOMAIN ArchiveDocuments
  \cup {"NCA_ECC.json", "misc_rules.json", "SBC_801.json", "notes.txt"}

\* files whose load fails, and files whose load yields records
IsolationFiles ==
  {"NCA_ECC.json", "null_value.json", "null_element.json", "null_clause.json",
   "misc_rules.json", "SBC_801.json", "scalar_list.json"}

\* listings of the archive: every file alone, and the files of
\* IsolationFiles two and three at a time in every order
ArchiveListings ==
  {<<f>> : f \in ArchiveFiles}
  \cup {l \in IsolationFiles \X IsolationFiles : l[1] # l[2]}
  \cup {l \in IsolationFiles \X IsolationFiles \X IsolationFiles :
          l[1] # l[2] /\ l[1] # l[3] /\ l[2] # l[3]}

IngestInit ==
  /\ pc = "start"
  /\ dir \in ArchiveListings
  /\ jsonFiles = <<>>
  /\ loaded = 0
  /\ normalizedData = <<>>
  /\ request = NoRequest
  /\ response = NoResponse

\* loadData alone, up to app.listen
IngestNext ==
  \/ ReadDir
  \/ ReadDirFails
  \/ LoadFile
  \/ Listen

\* ingestion of an archive directory
IngestSpec == IngestInit /\ [][IngestNext]_vars

(***************************************************************************)
(* Properties.                                                             *)
(***************************************************************************)
\* the loop of loadData has handled every file
Ingested == pc = "listening"

\* C1: every record of the record list has a non-empty title or a non-empty
\* text, during and after ingestion, whatever documents were ingested
C1_TitleOrText ==
  \A i \in 1..Len(normalizedData) :
    normalizedData[i].title # "" \/ normalizedData[i].text # ""

\* C1 witness: a DirectiveRooted document and an array of Generic documents
\* are ingested, each holding a candidate with neither title nor text, and
\* only the five other candidates are in the record list
C1_Witness ==
  /\ Ingested
  /\ jsonFiles = <<"HCIS_SEC_directives.json", "misc_rules.json">>
  /\ Len(normalizedData) = 5

\* C2: ingesting the one DirectiveRooted document of the scenario (directive
\* SEC-05, section 4.3, free text with the labels 4.3.1 and 4.3.2 and no
\* clause objects) yields exactly the two records 4.3.1 and 4.3.2, with the
\* references "<standard> SEC-05 4.3 4.3.1" and "<standard> SEC-05 4.3 4.3.2"
C2_FencesScenario ==
  (Ingested /\ jsonFiles = <<"HCIS_fences.json">>) =>
    /\ Len(normalizedData) = 2
    /\ normalizedData[1].clauseId = "4.3.1"
    /\ normalizedData[2].clauseId = "4.3.2"
    /\ normalizedData[1].reference = "HCIS_SEC SEC-05 4.3 4.3.1"
    /\ normalizedData[2].reference = "HCIS_SEC SEC-05 4.3 4.3.2"

(***************************************************************************)
(* What the specification asks of a search, stated without the handler.    *)
(***************************************************************************)
\* the whitespace-delimited tokens of s
Tokens(s) ==
  {SubSeq(s, a, MinOf({b \in a..Len(s) : b = Len(s) \/ IsSpace(Ch(s, b + 1))})) :
     a \in {i \in 1..Len(s) :
              ~IsSpace(Ch(s, i)) /\ (i = 1 \/ IsSpace(Ch(s, i - 1)))}}

\* the full query is a substring of the target, or every token of it is
FuzzySpec(target, query) ==
  LET lowered == ToLowerCase(target)
  IN  \/ Includes(lowered, ToLowerCase(query))
      \/ \A w \in Tokens(ToLowerCase(query)) : Includes(lowered, w)

SubstringFilters == {"standard", "directiveCode", "facilityClass", "domain"}

\* a filter is supplied when the body carries a non-empty value for it
Supplied(body) == \E f \in SubstringFilters \cup {"query"} : Truthy(body[f])

\* the record satisfies every supplied filter
Satisfies(r, body) ==
  /\ \A f \in SubstringFilters :
       Truthy(body[f]) => Includes(ToLowerCase(r[f]), ToLowerCase(body[f].v))
  /\ Truthy(body.query) =>
       FuzzySpec(r.title, body.query.v) \/ FuzzySpec(r.text, body.query.v)

\* the first n elements of seq
FirstN(seq, n) ==
  SubSeq(seq, 1, IF n < 0 THEN 0 ELSE IF n > Len(seq) THEN Len(seq) ELSE n)

Searching == request.op = "searchRequirements"

\* C3: for every search that supplies at least one filter, the result is the
\* first limit records (50 when limit is omitted), in the order of the
\* record list, of the records that satisfy every supplied filter
C3_FirstLimit ==
  (Searching /\ Supplied(request.body)) =>
    LET Keep(r) == Satisfies(r, request.body)
        limit == IF request.body.limit = Undefined THEN 50
                 ELSE request.body.limit.v
    IN  /\ response.status = 200
        /\ response.results = FirstN(SelectSeq(normalizedData, Keep), limit)

\* C4: a search returns the validation error, and no results, exactly when
\* none of standard, directiveCode, facilityClass, domain and query is
\* supplied (with a non-empty value); a body with limit alone is rejected
C4_ValidationError ==
  Searching =>
    /\ response.status = 400 <=> ~Supplied(request.body)
    /\ response.status = 400 =>
         response.error = SearchValidationError /\ response.results = <<>>
    /\ Supplied(request.body) => response.status = 200 /\ response.error = ""

\* C4 witness: a body that carries limit alone is rejected, on a record list
\* that is not empty
C4_Witness ==
  /\ Searching
  /\ \A f \in SubstringFilters \cup {"query"} : request.body[f] = Undefined
  /\ request.body.limit = JNum(2)
  /\ Len(normalizedData) > 0
  /\ response.status = 400

\* C5: fuzzyMatch(target, query) is true exactly when, ignoring case, the
\* full query is a substring of the target or every whitespace-delimited
\* token of the query is; a search with a query keeps a record only if its
\* title alone or its text alone satisfies this
C5_FuzzyMatch ==
  (Searching /\ Truthy(request.body.query)) =>
    /\ \A i \in 1..Len(normalizedData) :
         /\ fuzzyMatch(normalizedData[i].title, request.body.query.v)
              <=> FuzzySpec(normalizedData[i].title, request.body.query.v)
         /\ fuzzyMatch(normalizedData[i].text, request.body.query.v)
              <=> FuzzySpec(normalizedData[i].text, request.body.query.v)
    /\ \A i \in 1..Len(response.results) :
         \/ FuzzySpec(response.results[i].title, request.body.query.v)
         \/ FuzzySpec(response.results[i].text, request.body.query.v)

\* C5 witness: the query "fire gate" alone; the record whose title has one
\* token and whose text has the other is dropped, the record whose text has
\* both tokens apart from each other is kept
C5_Witness ==
  /\ Searching
  /\ request.body = [standard |-> Undefined, directiveCode |-> Undefined,
                     facilityClass |-> Undefined, domain |-> Undefined,
                     query |-> JStr("fire gate"), limit |-> Undefined]
  /\ \E i \in 1..Len(normalizedData) :
       /\ normalizedData[i].title = "Fire Detection"
       /\ normalizedData[i].text = "Gate alarms"
  /\ Len(response.results) = 1
  /\ response.results[1].text = "Gates and fences fire rated"

(***************************************************************************)
(* What the specification asks of a checklist, stated on sets of positions *)
(* of the record list.                                                     *)
(***************************************************************************)
\* the records at the positions of S, in the order of the record list
InOrder(data, S) ==
  [k \in 1..Cardinality(S) |->
     data[CHOOSE i \in S : Cardinality({j \in S : j <= i}) = k]]

\* S: the positions whose standard contains any requested standard
StandardsSpec(data, standards) ==
  {i \in 1..Len(data) :
     \E k \in 1..Len(standards) :
       Includes(ToLowerCase(data[i].standard), ToLowerCase(standards[k].v))}

\* the positions of X whose attribute is non-empty and contains a value
Matching(data, X, field, values) ==
  {i \in X : /\ data[i][field] # ""
             /\ \E v \in values :
                  Includes(ToLowerCase(data[i][field]), ToLowerCase(v))}

\* soft(X, f): the matching positions when there are any, X otherwise
SoftSpec(data, X, field, values) ==
  IF Matching(data, X, field, values) # {}
  THEN Matching(data, X, field, values) ELSE X

\* the values of the filters of the body; none when the filter is not supplied
ClassValues(body) ==
  IF Truthy(body.facilityClass) THEN {body.facilityClass.v} ELSE {}

DomainValues(body) ==
  IF IsArray(body.domains)
  THEN {body.domains.v[k].v : k \in 1..Len(body.domains.v)} ELSE {}

\* soft(soft(S, facilityClass), domains)
ChecklistSpec(data, body) ==
  SoftSpec(data,
           SoftSpec(data, StandardsSpec(data, body.standards.v),
                    "facilityClass", ClassValues(body)),
           "domain", DomainValues(body))

Checking == request.op = "generateChecklist"

\* the request carries a non-empty array of standards
ValidStandards(body) == body.standards.k = "array" /\ body.standards.v # <<>>

\* C6: the checklist is soft(soft(S, facilityClass), domains), in that order
\* and in the order of the record list; whenever S is not empty the
\* checklist is a non-empty part of S
C6_SoftFilters ==
  (Checking /\ ValidStandards(request.body)) =>
    LET S == StandardsSpec(normalizedData, request.body.standards.v)
        kept == ChecklistSpec(normalizedData, request.body)
    IN  /\ response.status = 200
        /\ response.checklist =
             [k \in 1..Cardinality(kept) |->
                ChecklistItem(InOrder(normalizedData, kept)[k])]
        /\ kept \subseteq S
        /\ S # {} => Len(response.checklist) > 0

\* C6 witness: facilityClass "class b" keeps the one building record, which
\* the domains filter then leaves alone; with the two filters in the other
\* order the four security records would be kept
C6_Witness ==
  /\ Checking
  /\ request.body = [standards |-> JArr(<<JStr("SBC"), JStr("hcis")>>),
                     facilityClass |-> JStr("class b"),
                     domains |-> JArr(<<JStr("Security")>>)]
  /\ Len(normalizedData) = 5
  /\ Len(response.checklist) = 1
  /\ response.checklist[1].domain = "building"

\* C7: without domains, when facilityClass matches none of the N > 0
\* records the standards filter selects, the checklist has all N records,
\* one item each
C7_SoftFallback ==
  (/\ Checking
   /\ ValidStandards(request.body)
   /\ DomainValues(request.body) = {}
   /\ Truthy(request.body.facilityClass)) =>
    LET S == StandardsSpec(normalizedData, request.body.standards.v)
    IN  (/\ S # {}
         /\ Matching(normalizedData, S, "facilityClass",
                     ClassValues(request.body)) = {}) =>
          /\ response.status = 200
          /\ response.checklist =
               [k \in 1..Cardinality(S) |->
                  ChecklistItem(InOrder(normalizedData, S)[k])]

\* C7 witness: facilityClass "class z" matches none of the four records of
\* the requested standard, one of which has a facility class, and the
\* checklist has the four
C7_Witness ==
  /\ Checking
  /\ request.body = [standards |-> JArr(<<JStr("hcis")>>),
                     facilityClass |-> JStr("class z"),
                     domains |-> Undefined]
  /\ \E i \in 1..Len(normalizedData) : normalizedData[i].facilityClass = "Class A"
  /\ Len(response.checklist) = 4

\* C8: generateChecklist returns the validation error, and no checklist,
\* whenever standards is missing, is not an array or is an empty array, and
\* never for a non-empty array, whatever facilityClass and domains are
C8_StandardsRequired ==
  Checking =>
    /\ ~ValidStandards(request.body) =>
         /\ response.status = 400
         /\ response.error = "standards array is required and must not be empty"
         /\ response.checklist = <<>>
    /\ ValidStandards(request.body) => response.status = 200 /\ response.error = ""

\* C8 witness: standards is a string, not an array, and the request is
\* rejected although records of that standard are loaded
C8_Witness ==
  /\ Checking
  /\ request.body.standards = JStr("hcis")
  /\ \E i \in 1..Len(normalizedData) : normalizedData[i].standard = "HCIS_SEC"
  /\ response.status = 400

(***************************************************************************)
(* What the specification asks of a reference lookup.                      *)
(***************************************************************************)
\* underscores count as spaces
IsSeparator(c) == IsSpace(c) \/ c = "_"

\* the lower-cased words of s: its maximal runs of characters that are
\* neither whitespace nor underscores
RECURSIVE WordsFrom(_, _)
WordsFrom(s, from) ==
  LET starts == {i \in from..Len(s) : ~IsSeparator(Ch(s, i))}
      stop(b) == MinOf({j \in b..(Len(s) + 1) :
                          j = Len(s) + 1 \/ IsSeparator(Ch(s, j))})
  IN  IF starts = {} THEN <<>>
      ELSE <<ToLowerCase(SubSeq(s, MinOf(starts), stop(MinOf(starts)) - 1))>>
           \o WordsFrom(s, stop(MinOf(starts)))

Words(s) == WordsFrom(s, 1)

\* the words of s separated by single spaces
RECURSIVE Spaced(_)
Spaced(words) ==
  IF words = <<>> THEN ""
  ELSE IF Len(words) = 1 THEN words[1]
  ELSE words[1] \o " " \o Spaced(Tail(words))

\* the request carries a non-empty string, which passes the validation
ValidReference(body) == body.reference.k = "string" /\ body.reference.v # ""

Resolving == request.op = "getReference" /\ ValidReference(request.body)

\* C9: two query strings that pass the validation and differ only in letter
\* case, underscores versus spaces, lengths of whitespace runs and leading or
\* trailing whitespace have the same outcome, the same record or both
\* not-found; "hcis sec sec-05 4.3.2" resolves the record stored with the
\* reference "HCIS_SEC SEC-05 4.3.2"
C9_NormalizationInvariance ==
  Resolving =>
    /\ \A other \in ReferenceBodies :
         (/\ ValidReference(other)
          /\ Words(other.reference.v) = Words(request.body.reference.v)) =>
           getReference(normalizedData, other) = response
    /\ (/\ request.body.reference.v = "hcis sec sec-05 4.3.2"
        /\ \E i \in 1..Len(normalizedData) :
             normalizedData[i].reference = "HCIS_SEC SEC-05 4.3.2") =>
         /\ response.status = 200
         /\ response.results[1].reference = "HCIS_SEC SEC-05 4.3.2"

\* C9 witness: a query in other letter case, with underscores, longer
\* whitespace runs and surrounding whitespace resolves the stored record
C9_Witness ==
  /\ Resolving
  /\ request.body.reference.v = " HCIS_SEC  SEC-05__4.3.2 "
  /\ response.status = 200
  /\ response.results[1].reference = "HCIS_SEC SEC-05 4.3.2"
  /\ response.results[1].clauseId = "2"

\* the positions whose normalized reference equals the normalized query
ExactAt(data, query) ==
  {i \in 1..Len(data) : Words(data[i].reference) = Words(query)}

\* the positions whose normalized reference ends with the normalized query
SuffixAt(data, query) ==
  {i \in 1..Len(data) :
     EndsWith(Spaced(Words(data[i].reference)), Spaced(Words(query)))}

\* C10: the result is the first record that matches exactly, if any record
\* does, even after an earlier record that matches by suffix only; else the
\* first record that matches by suffix; not-found only when neither exists
C10_ExactBeforeSuffix ==
  Resolving =>
    LET E == ExactAt(normalizedData, request.body.reference.v)
        X == SuffixAt(normalizedData, request.body.reference.v)
    IN  /\ E # {} =>
             response.status = 200 /\ response.results = <<normalizedData[MinOf(E)]>>
        /\ (E = {} /\ X # {}) =>
             response.status = 200 /\ response.results = <<normalizedData[MinOf(X)]>>
        /\ response.status = 404 <=> (E = {} /\ X = {})

\* C10 witness: the first record matches the query by suffix only, a later
\* record matches it exactly, and the later record is the result
C10_Witness ==
  /\ Resolving
  /\ request.body.reference.v = "sec-05 4.3.2"
  /\ 1 \in SuffixAt(normalizedData, request.body.reference.v)
  /\ ExactAt(normalizedData, request.body.reference.v) = {5}
  /\ response.results = <<normalizedData[5]>>

\* C11: the query "HCIS SEC-01 4.4.1", the short form of the standard
\* prefix, resolves with status 200 and no error to the record stored with
\* the reference "HCIS_SEC SEC-01 4.4.1", when the record list holds that
\* record and none stored under the short form
C11_ShortForm ==
  (/\ Resolving
   /\ request.body.reference = JStr("HCIS SEC-01 4.4.1")
   /\ \E i \in 1..Len(normalizedData) :
        normalizedData[i].reference = "HCIS_SEC SEC-01 4.4.1"
   /\ \A i \in 1..Len(normalizedData) :
        normalizedData[i].reference # "HCIS SEC-01 4.4.1") =>
    /\ response.status = 200
    /\ response.error = ""
    /\ Len(response.results) = 1
    /\ response.results[1].reference = "HCIS_SEC SEC-01 4.4.1"

\* C12: once the server listens, no step (a searchRequirements,
\* getReference, generateChecklist or health request, whatever its answer,
\* or the end of an exchange) changes the record list in content, order or
\* length
C12_CorpusReadOnly ==
  [][pc = "listening" => normalizedData' = normalizedData]_vars

C12_Witness ==
  /\ pc = "listening"
  /\ request.op \in {"searchRequirements", "getReference", "generateChecklist"}
  /\ response.status \in {400, 404}
  /\ Len(normalizedData) > 1

\* reading, parsing or normalizing the file raises inside the per-file try
Fails(file) ==
  \/ file \in Unparsable
  \/ normalizeRecord(ParsedFile(file), extractStandardFromFilename(file), extractDomain(file, ParsedFile(file)), file).threw

\* the records normalization returns for a file that does not fail
NormalizedOf(file) ==
  normalizeRecord(ParsedFile(file), extractStandardFromFilename(file), extractDomain(file, ParsedFile(file)), file).recs

\* the records of the non-failing files among files[1..n], in file order
RECURSIVE CorpusOf(_, _)
CorpusOf(files, n) ==
  IF n = 0 THEN <<>>
  ELSE CorpusOf(files, n - 1) \o (IF Fails(files[n]) THEN <<>> ELSE NormalizedOf(files[n]))

\* C13: a request is taken only when the server listens and every file of
\* the one listing has been processed; the listing is read once and each
\* file processed once, in order; once the server listens it never loads
\* again and the record list no longer grows
C13_ListenAfterIngestion ==
  [][/\ request' # NoRequest =>
          /\ pc = "listening"
          /\ loaded = Len(jsonFiles)
     /\ pc # "start" => pc' # "start" /\ jsonFiles' = jsonFiles
     /\ loaded' \in {loaded, loaded + 1}
     /\ loaded' <= Len(jsonFiles')
     /\ pc = "listening" =>
          /\ pc' = "listening"
          /\ loaded' = loaded
          /\ Len(normalizedData') = Len(normalizedData)]_vars

C13_Witness ==
  /\ request # NoRequest
  /\ response.status = 200
  /\ Len(jsonFiles) = 2
  /\ loaded = 2
  /\ Len(normalizedData) > 1

\* C14: while and after the files are loaded, the record list is the
\* concatenation, in file order, of the normalized records of the processed
\* files that did not fail, a failing file contributing no record; and the
\* server listens only when every file of the listing was processed, the
\* ones after a failing file included
C14_FailureIsolation ==
  /\ pc \in {"loading", "listening"} =>
       normalizedData = CorpusOf(jsonFiles, loaded)
  /\ pc = "listening" => loaded = Len(jsonFiles)

C14_Witness ==
  /\ pc = "listening"
  /\ Len(jsonFiles) = 3
  /\ jsonFiles[1] = "misc_rules.json"
  /\ jsonFiles[2] = "null_element.json"
  /\ jsonFiles[3] = "SBC_801.json"
  /\ Fails(jsonFiles[2])
  /\ Len(normalizedData) = 2
  /\ normalizedData[2].standard = "SBC_801"

\* C15: normalizeRecord raises for no file that was read and parsed,
\* whatever the shape of the parsed value
C15_NeverRaises ==
  \A i \in 1..loaded :
    jsonFiles[i] \notin Unparsable =>
      ~normalizeRecord(ParsedFile(jsonFiles[i]), extractStandardFromFilename(jsonFiles[i]), extractDomain(jsonFiles[i], ParsedFile(jsonFiles[i])), jsonFiles[i]).threw

\* C16: every record of the record list has a text of at most 10,000
\* characters, whether built from a clause object, from a generic object
\* or by parseContentIntoClauses
C16_TextLimit ==
  \A i \in 1..Len(normalizedData) : Len(normalizedData[i].text) <= TextLen

\* the one reference the documents of the archive supply themselves (the
\* ref of the first object of misc_rules.json)
SuppliedReferences == {"SEC-05 4.3.2"}

\* C17: every record whose source supplies no reference has the reference
\* made of its standard, directiveCode, sectionCode and clauseId joined by
\* single spaces, whitespace-collapsed and trimmed, also when directiveCode
\* or sectionCode is empty
C17_SynthesizedReference ==
  \A i \in 1..Len(normalizedData) :
    normalizedData[i].reference \notin SuppliedReferences =>
      normalizedData[i].reference =
        Trim(CollapseWs(normalizedData[i].standard \o " "
                        \o normalizedData[i].directiveCode \o " "
                        \o normalizedData[i].sectionCode \o " "
                        \o normalizedData[i].clauseId))

\* the one file of the listing is a free-text document and was loaded: the
\* record list holds the records segmented from its text
TextLoaded ==
  /\ pc \in {"loading", "listening"}
  /\ Len(jsonFiles) = 1
  /\ loaded = 1
  /\ jsonFiles[1] \in DOMAIN SegmenterTexts

\* the text of the loaded free-text document
LoadedText == SegmenterTexts[jsonFiles[1]]

\* the labels captured by a list of matches
Labels(matches) == {matches[i].label : i \in 1..Len(matches)}

\* the matches whose cleaned body is longer than the cascade minimum
LongBodied(matches) ==
  {i \in 1..Len(matches) :
     Len(Trim(CollapseWs(Trim(matches[i].body)))) > MinClauseLen}

\* the text has exactly 2 numbered-clause matches and 3 article matches
TwoNumberedThreeArticles ==
  /\ TextLoaded
  /\ Len(MatchAll("numbered", LoadedText)) = 2
  /\ Len(MatchAll("article", LoadedText)) = 3

\* C18 as stated: for a text with exactly 2 numbered-clause matches and 3
\* article matches, every emitted record has a dotted numeric label as
\* clauseId and none has an article number
C18_OnlyDottedLabels ==
  TwoNumberedThreeArticles =>
    \A i \in 1..Len(normalizedData) :
      /\ normalizedData[i].clauseId \in Labels(MatchAll("numbered", LoadedText))
      /\ normalizedData[i].clauseId \notin Labels(MatchAll("article", LoadedText))

\* C18 amended: for a text with exactly 2 numbered-clause matches and 3
\* article matches of which some numbered match has a cleaned body longer
\* than 20 characters, the records are those of the long-bodied numbered
\* matches: every clauseId is a dotted numeric label, none an article number
C18_NumberedWins ==
  (/\ TwoNumberedThreeArticles
   /\ LongBodied(MatchAll("numbered", LoadedText)) # {}) =>
    /\ Len(normalizedData) = Cardinality(LongBodied(MatchAll("numbered", LoadedText)))
    /\ \A i \in 1..Len(normalizedData) :
         /\ normalizedData[i].clauseId \in Labels(MatchAll("numbered", LoadedText))
         /\ normalizedData[i].clauseId \notin Labels(MatchAll("article", LoadedText))

C18_Witness ==
  /\ TwoNumberedThreeArticles
  /\ jsonFiles[1] = "cascade_priority.json"
  /\ Len(normalizedData) = 2
  /\ normalizedData[1].clauseId = "1.1"
  /\ normalizedData[2].clauseId = "2.2"

\* the text has exactly 1 numbered-clause match and fewer than 2 article
\* matches
OneNumbered ==
  /\ TextLoaded
  /\ Len(MatchAll("numbered", LoadedText)) = 1
  /\ Len(MatchAll("article", LoadedText)) < 2

\* what the paragraph fallback, then the whole-document fallback, produce
\* for the loaded text when no cascade record exists
FallbackOutput ==
  WholeFallback(
    ParagraphFallback(<<>>, LoadedText, extractStandardFromFilename(jsonFiles[1]), "SEC-09", "2.1", extractDomain(jsonFiles[1], ParsedFile(jsonFiles[1]))),
    LoadedText, extractStandardFromFilename(jsonFiles[1]), "SEC-09", "2.1", extractDomain(jsonFiles[1], ParsedFile(jsonFiles[1])))

\* C19: for a text with exactly 1 numbered-clause match and fewer than 2
\* article matches, no record carries the dotted label as clauseId and the
\* records are exactly those of the paragraph / whole-document fallback
C19_SingleMatchFallsThrough ==
  OneNumbered =>
    /\ \A i \in 1..Len(normalizedData) :
         normalizedData[i].clauseId \notin Labels(MatchAll("numbered", LoadedText))
    /\ normalizedData = FallbackOutput

C19_Witness ==
  /\ OneNumbered
  /\ jsonFiles[1] = "single_paragraphs.json"
  /\ Len(normalizedData) = 2
  /\ normalizedData[2].clauseId = "2"
  /\ Includes(normalizedData[2].text, "3.2")

\* the paragraphs of the loaded text that the filter of the paragraph
\* fallback keeps
Survivors == SelectSeq(SplitParagraphs(LoadedText), MeaningfulParagraph)

\* the cleaned paragraphs among paras that are longer than minLen
LongParagraphs(paras, minLen) ==
  {i \in 1..Len(paras) : Len(CollapseWs(Trim(paras[i]))) > minLen}

\* the minimum of the strategy that produced the records of the loaded
\* text: 20 for a cascade match, 100 or 50 for the paragraph fallback
\* according to the number of surviving paragraphs; the whole-document
\* fallback has none
StrategyMinimum ==
  IF LongBodied(CascadeMatches(LoadedText)) # {} THEN MinClauseLen
  ELSE IF Len(LoadedText) <= ParagraphContentLen THEN 0
  ELSE IF Len(Survivors) > ManyParagraphs
  THEN (IF LongParagraphs(Survivors, ParagraphLen) # {} THEN ParagraphLen ELSE 0)
  ELSE (IF LongParagraphs(Survivors, FewParagraphLen) # {} THEN FewParagraphLen ELSE 0)

\* C20: every record segmented from a text has a cleaned text longer than
\* the minimum of the strategy that produced it: 20 for a cascade match,
\* 100 for the paragraph fallback when more than 3 paragraphs survive, 50
\* for the paragraph fallback otherwise
C20_StrategyMinimum ==
  TextLoaded =>
    \A i \in 1..Len(normalizedData) :
      /\ Len(normalizedData[i].text) > StrategyMinimum
      /\ normalizedData[i].text = Trim(CollapseWs(normalizedData[i].text))

C20_Witness ==
  /\ TextLoaded
  /\ jsonFiles[1] = "paragraphs_many.json"
  /\ StrategyMinimum = ParagraphLen
  /\ Len(Survivors) = 5
  /\ Len(normalizedData) = 4
  /\ normalizedData[3].clauseId = "4"

\* the records parseContentIntoClauses returns for the loaded text
Segmented ==
  parseContentIntoClauses(LoadedText, extractStandardFromFilename(jsonFiles[1]), "SEC-09", "2.1", extractDomain(jsonFiles[1], ParsedFile(jsonFiles[1])))

\* C21 as stated: parseContentIntoClauses returns at least one record for
\* every text longer than 100 characters
C21_AtLeastOne ==
  (TextLoaded /\ Len(LoadedText) > WholeContentLen) => Len(Segmented) >= 1

\* C21 amended: parseContentIntoClauses returns at least one record for
\* every text longer than 100 characters that is not made of whitespace
\* only; exactly one, holding the entire cleaned text, when neither the
\* cascade nor the paragraph splitting produced a record; and no record
\* for the empty text and for a text of whitespace only
C21_SufficientlyLong ==
  TextLoaded =>
    /\ normalizedData = Segmented
    /\ (Len(LoadedText) > WholeContentLen /\ Trim(LoadedText) # "") =>
         /\ Len(normalizedData) >= 1
         /\ (StrategyMinimum = 0) =>
              /\ Len(normalizedData) = 1
              /\ normalizedData[1].text = CollapseWs(Trim(LoadedText))
    /\ Trim(LoadedText) = "" => normalizedData = <<>>

C21_Witness ==
  /\ TextLoaded
  /\ jsonFiles[1] = "single_whole.json"
  /\ Len(LoadedText) > WholeContentLen
  /\ Len(LoadedText) <= ParagraphContentLen
  /\ Len(normalizedData) = 1
  /\ normalizedData[1].clauseId = "1"

\* C22: when fewer than 2 matches of the cascade survive the discard of
\* cleaned bodies of 20 characters or less, the records of a non-blank text
\* are those of the paragraph splitting or of the whole-document fallback,
\* never a lone record of the cascade
C22_UsableMatches ==
  (/\ TextLoaded
   /\ Trim(LoadedText) # ""
   /\ Cardinality(LongBodied(CascadeMatches(LoadedText))) < 2) =>
    normalizedData = FallbackOutput

\* C23: a text of k >= 2 article blocks without dotted labels, each body
\* with a cleaned length over 20, yields exactly k records in text order,
\* the i-th with the i-th article number as clauseId and the cleaned i-th
\* body as text, whatever letters the body contains
C23_ArticleBlocks ==
  (/\ TextLoaded
   /\ jsonFiles[1] \in DOMAIN ArticleBlocks
   /\ Len(ArticleBlocks[jsonFiles[1]]) >= 2
   /\ MatchAll("numbered", LoadedText) = <<>>
   /\ \A i \in 1..Len(ArticleBlocks[jsonFiles[1]]) :
        Len(Trim(CollapseWs(ArticleBlocks[jsonFiles[1]][i][3]))) > MinClauseLen) =>
    /\ Len(normalizedData) = Len(ArticleBlocks[jsonFiles[1]])
    /\ \A i \in 1..Len(normalizedData) :
         /\ normalizedData[i].clauseId = ArticleBlocks[jsonFiles[1]][i][1]
         /\ normalizedData[i].text = Trim(CollapseWs(ArticleBlocks[jsonFiles[1]][i][3]))

\* a document made of MixedSections was loaded alone
MixedLoaded ==
  /\ pc \in {"loading", "listening"}
  /\ Len(jsonFiles) = 1
  /\ loaded = 1
  /\ jsonFiles[1] \in {"mixed_directive.json", "mixed_section.json"}

\* the texts of the n clause objects of section, in clause order
ClauseTexts(section) ==
  [i \in 1..Len(Get(section, "clauses").v) |-> Attr(Get(section, "clauses").v[i], <<"text">>, "")]

\* the m records segmented from the free text of section for the loaded file
TextRecords(section) ==
  parseContentIntoClauses(Get(section, "content").v, extractStandardFromFilename(jsonFiles[1]), IF jsonFiles[1] = "mixed_directive.json" THEN "SEC-04" ELSE "", Get(section, "section_code").v, extractDomain(jsonFiles[1], ParsedFile(jsonFiles[1])))

\* C24: a section with n clause objects and a free text that segments
\* into m records contributes n + m records, the clause records in clause
\* order followed by the text-derived records, a text-derived record that
\* repeats a clause included; the sections follow the document order
C24_ClausesThenText ==
  MixedLoaded =>
    /\ Len(normalizedData) =
         Len(ClauseTexts(MixedSections[1])) + Len(TextRecords(MixedSections[1]))
         + Len(ClauseTexts(MixedSections[2])) + Len(TextRecords(MixedSections[2]))
    /\ [i \in 1..Len(normalizedData) |-> normalizedData[i].text] =
         ClauseTexts(MixedSections[1])
         \o [j \in 1..Len(TextRecords(MixedSections[1])) |-> TextRecords(MixedSections[1])[j].text]
         \o ClauseTexts(MixedSections[2])
         \o [j \in 1..Len(TextRecords(MixedSections[2])) |-> TextRecords(MixedSections[2])[j].text]
    /\ SubSeq(normalizedData, 3, 4) = TextRecords(MixedSections[1])
    /\ SubSeq(normalizedData, 6, 7) = TextRecords(MixedSections[2])
    /\ [i \in 1..Len(normalizedData) |-> normalizedData[i].clauseId] =
         <<"a", "4.4.1", "4.4.1", "4.4.3", "1", "1", "2">>

C24_Witness ==
  /\ MixedLoaded
  /\ jsonFiles[1] = "mixed_directive.json"
  /\ Len(normalizedData) = 7
  /\ normalizedData[2].text = normalizedData[3].text
  /\ normalizedData[2].clauseId = normalizedData[3].clauseId
  /\ normalizedData[5].sectionCode = "3.2"

\* the file was loaded alone
LoadedAlone(file) ==
  /\ pc \in {"loading", "listening"}
  /\ jsonFiles = <<file>>
  /\ loaded = 1

\* C25: a generic object with nested collection fields (items, and
\* requirements inside an item) yields its own record and the records of
\* the nested elements at every depth
C25_NestedCollections ==
  LoadedAlone("nested_generic.json") =>
    /\ Len(normalizedData) = 4
    /\ {normalizedData[i].title : i \in 1..Len(normalizedData)} =
         {"Site rules", "Gate", "Door", "Lock"}

\* C26: a document without directives whose document.structured_sections
\* is present but not an array is handled as a generic object: it yields
\* the record of its own title and text
C26_NonArraySections ==
  LoadedAlone("loose_document.json") =>
    /\ Len(normalizedData) = 1
    /\ normalizedData[1].title = "Manual"
    /\ normalizedData[1].text = "Gates are locked"

\* C27: the record of a clause or generic object that supplies a text but
\* no title has the first sentence of the text, cut to 200 characters, as
\* title
C27_DerivedTitle ==
  (LoadedAlone("untitled_clause.json") \/ LoadedAlone("untitled_generic.json")) =>
    /\ Len(normalizedData) = 1
    /\ normalizedData[1].text # ""
    /\ normalizedData[1].title # ""
    /\ normalizedData[1].title = Substring0(Trim(FirstSentence(normalizedData[1].text)), TitleLen)

\* C28: the synthesized reference of a clause record ends with the
\* clauseId of the record, also when the clauseId comes from the field id,
\* and that of a DirectiveRooted clause record contains the directiveCode
C28_ReferenceClauseId ==
  (\/ LoadedAlone("id_clause.json")
   \/ LoadedAlone("id_section_clause.json")
   \/ LoadedAlone("keyed_clause.json")) =>
    \A i \in 1..Len(normalizedData) :
      /\ normalizedData[i].clauseId = "A7"
      /\ EndsWith(normalizedData[i].reference, " " \o normalizedData[i].clauseId)
      /\ jsonFiles[1] # "id_section_clause.json" =>
           Includes(normalizedData[i].reference, " SEC-06 ")

\* the positions of the records whose reference holds nothing but
\* underscores and whitespace
BlankAt(data) == {i \in 1..Len(data) : Words(data[i].reference) = <<>>}

\* C29: a getReference query that is a non-empty string of underscores and
\* whitespace only is answered, on a non-empty record list, with status 200
\* and the first record whose normalized reference is empty or, without such
\* a record, the first record of the list, never with not-found; the
\* validation error 400 is the answer exactly when the reference is missing,
\* empty or not a string
C29_BlankQuery ==
  request.op = "getReference" =>
    /\ response.status = 400 <=> ~ValidReference(request.body)
    /\ (/\ ValidReference(request.body)
        /\ Words(request.body.reference.v) = <<>>
        /\ Len(normalizedData) > 0) =>
          /\ response.status = 200
          /\ response.results =
               <<normalizedData[IF BlankAt(normalizedData) # {}
                                THEN MinOf(BlankAt(normalizedData)) ELSE 1]>>

\* the query "_ " on the SEC-01 record followed by the two records of
\* blank_reference.json is answered with the third record, whose reference
\* is "_"
C29_Witness ==
  /\ Resolving
  /\ request.body.reference.v = "_ "
  /\ jsonFiles = <<"HCIS_SEC_01.json", "blank_reference.json">>
  /\ Len(normalizedData) = 3
  /\ response.status = 200
  /\ response.results = <<normalizedData[3]>>
  /\ normalizedData[3].reference = "_"

\* the query "  " on a record list without a blank reference is answered
\* with its first record
C29_FirstRecord ==
  /\ Resolving
  /\ request.body.reference.v = "  "
  /\ BlankAt(normalizedData) = {}
  /\ Len(normalizedData) = 2
  /\ response.status = 200
  /\ response.results = <<normalizedData[1]>>

\* C30: a file name with NCA and GECC gives the standard NCA_GECC, one
\* with NCA and ECC but not GECC gives NCA_ECC, and a name without any
\* known token gives its first two underscore-separated tokens in upper case
C30_StandardFromFilename ==
  /\ LoadedAlone("NCA_GECC_controls.json") => normalizedData[1].standard = "NCA_GECC"
  /\ LoadedAlone("NCA_ECC_controls.json") => normalizedData[1].standard = "NCA_ECC"
  /\ LoadedAlone("port_rules_2024.json") => normalizedData[1].standard = "PORT_RULES"

=============================================================================
